---- MODULE Spec2Model ----
(***************************************************************************)
(* The resume worker: the RabbitMQ consumer (rabbitmq.ts), the job         *)
(* orchestrator (job-processor.ts, ResumeJobProcessor.processJob) and the  *)
(* resume_jobs table it writes (database.ts).                              *)
(*                                                                         *)
(* One delivery of the broker starts one run of the consume callback; the  *)
(* callback's awaits are the steps of the model, so runs of different      *)
(* deliveries interleave between awaits exactly as promises do.            *)
(***************************************************************************)
EXTENDS Integers, Sequences, FiniteSets, TLC

\* ------------------------------------------------------------------ bounds
NumMsgs == 1
NumJobs == 1
MaxDeliveries == 2
MaxRetryHeader == 3
MaxChannels == 2
MaxAttemptsCfg == 3
MaxDelayCfg == 3
MaxProcs == 3
MaxBatch == 2

\* ------------------------------------------------------ program constants
\* rabbitmq.ts: `if (retryCount < 3)`
RequeueLimit == 3

\* config.rabbitmq.prefetchCount, as configured by RABBITMQ_PREFETCH_COUNT=1
PrefetchCount == 1

\* payload-assembler.ts: `fieldName === 'description' ? 800 : 500`
JobDescriptionCap == 2000
MetadataCap == 1000
EmailCap == 200
DescriptionCap == 800
OtherCap == 500

\* rabbitmq.ts: `async connect(maxRetries = 5)`
DefaultMaxRetries == 5

Msgs == 1..NumMsgs
Jobs == 1..NumJobs
Channels == 1..MaxChannels

\* The jobId of a message is a row of resume_jobs (1..NumJobs) or an id
\* for which the table has no row (NoRow).
NoRow == 0

\* properties.headers of a message: <<>> when x-retry-count is absent,
\* <<n>> when it is n.
Headers == {<<>>} \cup {<<n>> : n \in 0..MaxRetryHeader}

\* type JobStatus
JobStatus == {"pending", "processing", "completed", "failed", "cancelled"}

\* ResumeServiceClient.renderResume's response: which of error, pdfUrl and
\* html it carries.
RenderResponses == [error : BOOLEAN, pdfUrl : BOOLEAN, html : BOOLEAN]
NoResponse == [error |-> FALSE, pdfUrl |-> FALSE, html |-> FALSE]

\* The wait window of the polling processJob and the pause between two polls,
\* in milliseconds.
MaxWaitTime == 300000
PollInterval == 5000

VARIABLES
    msgs,       \* the published messages: body, jobId, headers
    ready,      \* messages in resumes.queue, ready for delivery
    dead,       \* messages routed to the dead-letter exchange
    dl,         \* the deliveries made so far, each with its callback's run
    chan,       \* this.channel of the consumer
    chanState,  \* per channel: unused, open, chanClosed, closed
    timers,     \* pending setTimeout(() => this.reconnect(), 5000)
    status,     \* resume_jobs.status per job row
    meta,       \* resume_jobs.metadata per job row
    wr,         \* one execution of withRetry (retry.ts)
    cn,         \* the consumer's connection, flags, timers and processes
    asm,        \* one item on its way through enhanceItem and assemblePayload
    vl,         \* one call of AIValidator.validate
    bt,         \* one call of AIEnricher.enhanceItems on a batch of items
    pl,         \* one run of the polling processJob
    fg,         \* one source group of processJob fetched under withRetry
    sd          \* shutdown() of index.ts and a job run in flight

vars ==
    <<msgs, ready, dead, dl, chan, chanState, timers, status, meta, wr, cn,
      asm, vl, bt, pl, fg, sd>>

\* The consumer, its runs and the table; the executions of the library
\* functions studied on their own.
workerVars == <<msgs, ready, dead, dl, chan, chanState, timers, status, meta>>
unitVars == <<wr, cn, asm, vl, bt, pl, fg, sd>>

\* What a specification of one part leaves alone.
exceptWr == <<workerVars, cn, asm, vl, bt, pl, fg, sd>>
exceptCn == <<workerVars, wr, asm, vl, bt, pl, fg, sd>>
exceptAsm == <<workerVars, wr, cn, vl, bt, pl, fg, sd>>
exceptVl == <<workerVars, wr, cn, asm, bt, pl, fg, sd>>
exceptBt == <<workerVars, wr, cn, asm, vl, pl, fg, sd>>
exceptPl == <<workerVars, wr, cn, asm, vl, bt, fg, sd>>
exceptFg == <<workerVars, wr, cn, asm, vl, bt, pl, sd>>
exceptSd == <<workerVars, wr, cn, asm, vl, bt, pl, fg>>

brokerVars == <<ready, dead, chanState>>
dbVars == <<status, meta>>

\* ----------------------------------------------------------- error values
\* An error is named by the operation that threw it, so that two errors of
\* different operations are different errors.
DbError(op) == "db error @" \o op
JobNotFound == "Job not found"
PostsFetchError == "fetch_posts_data failed"
ManagementFetchError == "fetch_management_data failed"
SchemaError == "Composed payload validation failed"
RenderCallError == "render request failed"
RendererError == "Renderer error: internal"
NoOutputError == "Renderer did not return any output"
DownloadError == "download failed"
StorageError == "Failed to store resume"
AIError == "ai enhancement failed"
SyntaxError == "SyntaxError"

\* ------------------------------------------------------- metadata records
EmptyMeta == [keys |-> {}, error |-> ""]
ProcessingMeta == [keys |-> {"processingStartedAt"}, error |-> ""]
CompletedMeta(resp) ==
    [keys |-> {"resumeJobId", IF resp.pdfUrl THEN "pdfUrl" ELSE "htmlUrl",
               "completedAt", "processingDurationMs"},
     error |-> ""]
FailedMeta(err) == [keys |-> {"error", "failedAt"}, error |-> err]

\* ----------------------------------------------------------------- helpers
Deliveries == DOMAIN dl
JobOf(d) == msgs[dl[d].msg].job
Ev(op, ok) == [op |-> op, ok |-> ok]
Did(d, op) == \E i \in DOMAIN dl[d].log : dl[d].log[i].op = op
DidOk(d, op) == \E i \in DOMAIN dl[d].log : dl[d].log[i] = Ev(op, TRUE)

\* (msg.properties.headers?.['x-retry-count'] as number) || 0
RetryCountOf(headers) ==
    IF headers = <<>> THEN 0 ELSE IF headers[1] = 0 THEN 0 ELSE headers[1]


\* ---------------------------------------------------------- decision points
\* consume callback: `JSON.parse(content)` inside the try block; a body that
\* does not parse throws into the callback's catch, before the handler.
AfterDecodeAckBlindly(body) ==
    IF body = "json" THEN "setProcessing" ELSE "ack"

AfterDecode(body) == IF body = "json" THEN "setProcessing" ELSE "catch"

\* consume callback, catch block: `if (retryCount < 3)` requeue, else not.
ShouldRequeueOffByOne(retryCount) == retryCount <= RequeueLimit

ShouldRequeue(retryCount) == retryCount < RequeueLimit

\* processJob: `if (!valid) throw new Error('Composed payload validation
\* failed')`, else the render call follows.
AfterValidateIgnored(valid) == [pc |-> "render", err |-> ""]

AfterValidate(valid) ==
    IF valid THEN [pc |-> "render", err |-> ""]
    ELSE [pc |-> "setFailed", err |-> SchemaError]

\* processJob after the render response: error first, then the absence of
\* both outputs, then PDF preferred over inline html.
AfterRenderNoOutputCheck(resp) ==
    IF resp.error THEN [pc |-> "setFailed", err |-> RendererError]
    ELSE IF resp.pdfUrl THEN [pc |-> "download", err |-> ""]
    ELSE [pc |-> "store", err |-> ""]

AfterRender(resp) ==
    IF resp.error THEN [pc |-> "setFailed", err |-> RendererError]
    ELSE IF ~resp.pdfUrl /\ ~resp.html
         THEN [pc |-> "setFailed", err |-> NoOutputError]
    ELSE IF resp.pdfUrl THEN [pc |-> "download", err |-> ""]
    ELSE [pc |-> "store", err |-> ""]

\* consume callback: `await this.jobHandler!(job)` inside the try block;
\* the ack follows a resolved handler, the catch block a rejected one.
AfterHandlerNotAwaited(outcome) == "ack"

AfterHandler(outcome) == IF outcome = "resolved" THEN "ack" ELSE "catch"

\* ------------------------------------------------------------ idle values
\* The values of the parts of the state a specification leaves alone.
NoResult == [kind |-> "none", call |-> 0]

WrIdle ==
    [phase |-> "idle", cfg |-> [maxAttempts |-> 1, initialDelay |-> 1,
                                maxDelay |-> 1, backoffMultiplier |-> 1],
     timeouts |-> <<>>, outs |-> <<>>, warnings |-> 0, waits |-> <<>>,
     result |-> NoResult]

CnIdle ==
    [connection |-> 0, channel |-> 0, isRunning |-> FALSE,
     jobHandler |-> FALSE, live |-> {}, consumers |-> {}, brokerUp |-> TRUE,
     timers |-> 0, stopped |-> FALSE, procs |-> <<>>]

\* A string is known by the text it is cut from (src), the offset of its
\* first character in that text (from) and its length; Null is null or
\* undefined, Empty the empty string.
Null == [src |-> "null", from |-> 0, len |-> 0]
Empty == [src |-> "none", from |-> 0, len |-> 0]

\* An item without _ai; of the metadata, status, validated, tokensUsed and
\* error are kept (error <<>>: none).
NoMeta ==
    [status |-> "none", validated |-> FALSE, tokensUsed |-> 0,
     error |-> <<>>]

\* No AI call made.
NoOutcome ==
    [kind |-> "none", error |-> <<>>, content |-> Null, lines |-> 0,
     bullets |-> 0, has |-> {}, tokens_used |-> 0]

NoEntry ==
    [content |-> Null, other |-> Null, aiEnhanced |-> "undefined",
     ai |-> "undefined"]

\* A job without description, metadata or user email, and no user profile;
\* an email address is the sequence of its characters, absent or '' is <<>>.
NoJob ==
    [jobDescription |-> Null, note |-> Null, userEmail |-> <<>>,
     profileEmail |-> <<>>]

NoPayload == [jobDescription |-> Null, note |-> Null, email |-> <<>>]

AsmIdle ==
    [phase |-> "idle",
     item |-> [raw |-> Null, other |-> Null, opt |-> Null, optKey |-> "none",
               ai |-> NoMeta],
     section |-> [name |-> "experience", field |-> "description",
                  format |-> "bullet", minLength |-> 0, maxLength |-> 0,
                  bulletPoints |-> 0, enable |-> FALSE],
     fallback |-> "raw", outcome |-> NoOutcome, job |-> NoJob,
     out |-> NoEntry,
     payload |-> NoPayload]

\* A value handed to validate as its content: its JavaScript type, its
\* length, the length of content.trim(), the number of its non-blank lines,
\* how many of them begin with a bullet, and the phrases it includes
\* (lower-cased).
NoContent ==
    [kind |-> "undefined", len |-> 0, trimmed |-> 0, lines |-> 0,
     bullets |-> 0, has |-> {}]

\* {}: no rule (a length of 0 is no limit, as rules.minLength && ... has
\* it; <<>> is no bulletPointCount).
NoRules ==
    [minLength |-> 0, maxLength |-> 0, requiredFormat |-> "none",
     bulletPointCount |-> <<>>,
     forbiddenPhrases |-> [given |-> FALSE, list |-> <<>>],
     requiredKeywords |-> <<>>]

NoValidation ==
    [threw |-> FALSE, isValid |-> FALSE, errors |-> <<>>, warnings |-> <<>>]

\* section: the name the rules were looked up for ("none": rules built by
\* the caller).
VlIdle ==
    [phase |-> "idle", section |-> "none", content |-> NoContent,
     rules |-> NoRules, result |-> NoValidation]

\* enhanceItems not called: no items, no promise of enhanceItem, nothing
\* completed, no AI call made, no result.
BtIdle ==
    [phase |-> "idle", items |-> <<>>, section |-> AsmIdle.section,
     fallback |-> "raw", promises |-> <<>>, outcomes |-> <<>>,
     order |-> <<>>, calls |-> 0, results |-> <<>>]

\* The polling processJob not called: nothing polled, nothing written.
PlIdle ==
    [pc |-> "idle", elapsed |-> 0, completed |-> FALSE, polls |-> 0,
     polled |-> "none", pdfUrl |-> FALSE, status |-> "pending",
     completedWrites |-> 0, failedWrites |-> 0, stores |-> 0,
     error |-> "none", rejected |-> "none"]

\* No source group being fetched: no fetch invoked.
FgIdle ==
    [pc |-> "idle", group |-> "none", retries |-> 0, attempts |-> 0,
     calls |-> <<>>, failures |-> <<>>, bailed |-> FALSE]

\* Before shutdown: every pool open, no run in flight.
SdIdle ==
    [pc |-> "idle", consumer |-> "none", closed |-> {}, exited |-> FALSE,
     run |-> "none", at |-> 0, terminal |-> "none", usedClosed |-> FALSE]

\* The worker when nothing has been published.
WorkerIdle ==
    /\ msgs = [m \in Msgs |-> [body |-> "json", job |-> NoRow,
                              headers |-> <<>>, desc |-> "blank"]]
    /\ ready = {}
    /\ dead = {}
    /\ dl = <<>>
    /\ chan = 1
    /\ chanState = [c \in Channels |-> IF c = 1 THEN "open" ELSE "unused"]
    /\ timers = 0
    /\ status = [j \in Jobs |-> "pending"]
    /\ meta = [j \in Jobs |-> EmptyMeta]

\* -------------------------------------------------------------- withRetry
\* withRetry(fn, operation) of retry.ts, which hands fn to async-retry with
\*   retries = config.retry.maxAttempts, minTimeout = config.retry.initialDelay,
\*   maxTimeout = config.retry.maxDelay, factor = config.retry.backoffMultiplier
\* and leaves async-retry's randomize at its default (true).

\* The configurations of config.retry: delays in units of time.
RetryConfigs ==
    {c \in [maxAttempts : 1..MaxAttemptsCfg, initialDelay : 1..MaxDelayCfg,
            maxDelay : 1..MaxDelayCfg, backoffMultiplier : 1..2] :
        c.initialDelay <= c.maxDelay}

\* An error message as the sequence of its words.
ErrorMessages ==
    {<<"ECONNRESET">>, <<"timeout">>, <<"invalid", "json">>,
     <<"status", "404">>, <<"401", "Unauthorized">>, <<"status", "403">>,
     <<"Invalid", "input">>}

\* 1 + Math.random() in tenths: the factor of a randomized timeout.
Jitters == {10, 15, 19}

Min(a, b) == IF a <= b THEN a ELSE b
Max(a, b) == IF a >= b THEN a ELSE b

RECURSIVE Pow(_, _)
Pow(b, e) == IF e = 0 THEN 1 ELSE b * Pow(b, e - 1)

\* error.message.includes('404') || includes('401') || includes('403') ||
\* includes('Invalid')
IsNonRetryableNever(message) == FALSE

IsNonRetryable(message) ==
    \E i \in 1..Len(message) : message[i] \in {"404", "401", "403", "Invalid"}

\* retries: options?.retries ?? config.retry.maxAttempts
Retries(cfg) == cfg.maxAttempts

\* retry.createTimeout(attempt, opts), attempt counted from 0:
\*   Math.min(Math.round(random * Math.max(minTimeout, 1) * factor^attempt),
\*            maxTimeout)
CreateTimeoutUncapped(attempt, jitter, cfg) ==
    (jitter * Max(cfg.initialDelay, 1) * Pow(cfg.backoffMultiplier, attempt)
       + 5) \div 10

CreateTimeout(attempt, jitter, cfg) ==
    Min((jitter * Max(cfg.initialDelay, 1)
           * Pow(cfg.backoffMultiplier, attempt) + 5) \div 10,
        cfg.maxDelay)

\* retry.timeouts(opts): one timeout per retry, sorted ascending.
Timeouts(cfg, jitter) ==
    SortSeq([i \in 1..Retries(cfg) |-> CreateTimeout(i - 1, jitter[i], cfg)],
            LAMBDA a, b : a < b)

\* RetryOperation.mainError(): the error whose message occurred most often,
\* the latest one among equals; the result is its position in errors.
CountUpTo(errors, i) == Cardinality({j \in 1..i : errors[j] = errors[i]})

RECURSIVE MainErrorScan(_, _, _, _)
MainErrorScan(errors, i, main, mainCount) ==
    IF i > Len(errors) THEN main
    ELSE IF CountUpTo(errors, i) >= mainCount
         THEN MainErrorScan(errors, i + 1, i, CountUpTo(errors, i))
         ELSE MainErrorScan(errors, i + 1, main, mainCount)

MainError(errors) == MainErrorScan(errors, 1, 0, 0)

\* onRetry: logger.warn(..., 'Retrying operation after failure')
WarnOnEveryCall(warnings, retried) == warnings + 1

WarnOnRetry(warnings, retried) == IF retried THEN warnings + 1 ELSE warnings

\* withRetry has been called: async-retry has drawn its timeouts and is
\* about to invoke fn for the first time.
InitRetry ==
    /\ sd = SdIdle
    /\ fg = FgIdle
    /\ pl = PlIdle
    /\ WorkerIdle
    /\ cn = CnIdle
    /\ asm = AsmIdle
    /\ vl = VlIdle
    /\ bt = BtIdle
    /\ \E cfg \in RetryConfigs :
         \E jitter \in [1..Retries(cfg) -> Jitters] :
            wr = [WrIdle EXCEPT !.phase = "calling", !.cfg = cfg,
                                !.timeouts = Timeouts(cfg, jitter)]

\* fn() is invoked and resolves: withRetry resolves with its value, and
\* nothing is logged as a retry.
FnResolves ==
    /\ wr.phase = "calling"
    /\ wr' = [wr EXCEPT !.outs = Append(@, <<"ok">>),
                        !.phase = "resolved",
                        !.warnings = WarnOnRetry(@, FALSE),
                        !.result = [kind |-> "value", call |-> Len(wr.outs) + 1]]
    /\ UNCHANGED exceptWr

\* fn() is invoked and throws an Error with the given message: bail for a
\* non-retryable one; otherwise op.retry(err) takes the next timeout and
\* onRetry is called, or, no timeout being left, the promise is rejected
\* with op.mainError().
FnThrows(message) ==
    /\ wr.phase = "calling"
    /\ LET outs == Append(wr.outs, message)
       IN IF IsNonRetryable(message)
          THEN wr' = [wr EXCEPT !.outs = outs,
                                !.phase = "rejected",
                                !.result = [kind |-> "error",
                                            call |-> Len(outs)]]
          ELSE IF wr.timeouts # <<>>
          THEN wr' = [wr EXCEPT !.outs = outs,
                                !.phase = "waiting",
                                !.timeouts = Tail(@),
                                !.waits = Append(@, Head(wr.timeouts)),
                                !.warnings = WarnOnRetry(@, TRUE)]
          ELSE wr' = [wr EXCEPT !.outs = outs,
                                !.phase = "rejected",
                                !.warnings = WarnOnRetry(@, FALSE),
                                !.result = [kind |-> "error",
                                            call |-> MainError(outs)]]
    /\ UNCHANGED exceptWr

\* The timeout of the pending retry elapses: fn is invoked again.
RetryTimerFires ==
    /\ wr.phase = "waiting"
    /\ wr' = [wr EXCEPT !.phase = "calling"]
    /\ UNCHANGED exceptWr

NextRetry ==
    \/ FnResolves
    \/ \E message \in ErrorMessages : FnThrows(message)
    \/ RetryTimerFires

SpecRetry == InitRetry /\ [][NextRetry]_vars

\* ------------------------------------------------------ consumer lifecycle
\* RabbitMQConsumer's connect / setupQueue / start / stop / reconnect, one
\* step per await. An execution of the start-up sequence of index.ts or of
\* reconnect() is a process p; the connection it opens is connection p.

Procs == 1..MaxProcs

\* this.isRunning && this.connection && this.channel
IsConnected == cn.connection # 0 /\ cn.channel # 0 /\ cn.isRunning

\* while (attempts < maxRetries)
ShouldAttemptOnceMore(attempts, maxRetries) == attempts <= maxRetries

ShouldAttempt(attempts, maxRetries) == attempts < maxRetries

\* setTimeout(resolve, Math.pow(2, attempts) * 1000), in seconds
BackoffSeconds(attempts) == Pow(2, attempts)

NewProc(kind, maxRetries) ==
    [kind |-> kind, pc |-> "connect", attempts |-> 0,
     maxRetries |-> maxRetries, waits |-> <<>>, tries |-> 0,
     result |-> "pending"]

\* new RabbitMQConsumer(); consumer.connect(maxRetries) is being called.
InitConsumer ==
    /\ sd = SdIdle
    /\ fg = FgIdle
    /\ pl = PlIdle
    /\ WorkerIdle
    /\ vl = VlIdle
    /\ bt = BtIdle
    /\ wr = WrIdle
    /\ asm = AsmIdle
    /\ \E maxRetries \in 0..DefaultMaxRetries, up \in BOOLEAN :
         cn = [CnIdle EXCEPT !.brokerUp = up,
                             !.procs = <<NewProc("main", maxRetries)>>]

\* The process has not exited: index.ts exits when its start-up throws.
Alive == cn.procs[1].pc # "failed"

\* connect(): the loop is entered with no attempt left (maxRetries = 0)
\* and the function throws.
ConnectExhausted(p) ==
    /\ Alive
    /\ p \in DOMAIN cn.procs
    /\ cn.procs[p].pc = "connect"
    /\ ~ShouldAttempt(cn.procs[p].attempts, cn.procs[p].maxRetries)
    /\ cn' = [cn EXCEPT !.procs[p].pc = "failed",
                        !.procs[p].result = "threw"]

\* connect(): one turn of the loop. amqp.connect and createChannel succeed
\* when the broker is reachable: this.connection and this.channel are
\* assigned, the 'error' and 'close' handlers registered, and connect
\* returns. Otherwise attempts++ and either the backoff wait starts or the
\* loop ends and connect throws.
ConnectTry(p) ==
    /\ Alive
    /\ p \in DOMAIN cn.procs
    /\ cn.procs[p].pc = "connect"
    /\ ShouldAttempt(cn.procs[p].attempts, cn.procs[p].maxRetries)
    /\ IF cn.brokerUp
       THEN cn' = [cn EXCEPT !.connection = p, !.channel = p,
                             !.live = @ \cup {p},
                             !.procs[p].tries = @ + 1,
                             !.procs[p].result = "returned",
                             !.procs[p].pc = "setupQueue"]
       ELSE LET attempts == cn.procs[p].attempts + 1
            IN IF ShouldAttempt(attempts, cn.procs[p].maxRetries)
               THEN cn' = [cn EXCEPT
                             !.procs[p].attempts = attempts,
                             !.procs[p].tries = @ + 1,
                             !.procs[p].waits =
                                 Append(@, BackoffSeconds(attempts)),
                             !.procs[p].pc = "backoff"]
               ELSE cn' = [cn EXCEPT !.procs[p].attempts = attempts,
                                     !.procs[p].tries = @ + 1,
                                     !.procs[p].result = "threw",
                                     !.procs[p].pc = "failed"]

\* The backoff wait of connect() elapses.
ConnectBackoffElapses(p) ==
    /\ Alive
    /\ p \in DOMAIN cn.procs
    /\ cn.procs[p].pc = "backoff"
    /\ cn' = [cn EXCEPT !.procs[p].pc = "connect"]

\* setupQueue() on this.channel: the topology is declared and prefetch set,
\* or the calls throw because the channel's connection is gone. In
\* index.ts registerHandler follows.
SetupQueue(p) ==
    /\ Alive
    /\ p \in DOMAIN cn.procs
    /\ cn.procs[p].pc = "setupQueue"
    /\ IF cn.channel \in cn.live
       THEN cn' = [cn EXCEPT !.procs[p].pc = "start",
                             !.jobHandler = TRUE]
       ELSE cn' = [cn EXCEPT !.procs[p].pc = "failed"]

\* start(): this.isRunning = true, then channel.consume on this.channel,
\* which throws when the channel's connection is gone.
StartConsuming(p) ==
    /\ Alive
    /\ p \in DOMAIN cn.procs
    /\ cn.procs[p].pc = "start"
    /\ IF cn.channel \in cn.live
       THEN cn' = [cn EXCEPT !.isRunning = TRUE,
                             !.consumers = @ \cup {cn.channel},
                             !.procs[p].pc = "done"]
       ELSE cn' = [cn EXCEPT !.isRunning = TRUE,
                             !.procs[p].pc = "failed"]

\* Connection c is lost: 'close' (after 'error', when the loss is an
\* error) calls handleConnectionError, which schedules a reconnect each
\* time while isRunning. The number of losses is bounded by the processes
\* left for the reconnects they schedule.
ConnectionDrops(c) ==
    /\ Alive
    /\ c \in cn.live
    /\ \E events \in 1..2 :
         /\ Len(cn.procs) + cn.timers + events <= MaxProcs
         /\ cn' = [cn EXCEPT !.live = @ \ {c},
                             !.consumers = @ \ {c},
                             !.timers = IF cn.isRunning THEN @ + events
                                        ELSE @]

\* setTimeout(() => this.reconnect(), 5000) fires: reconnect() calls
\* connect() with the default maxRetries.
ReconnectTimerFires ==
    /\ Alive
    /\ cn.timers > 0
    /\ cn' = [cn EXCEPT !.timers = @ - 1,
                        !.procs = Append(@, NewProc("reconnect",
                                                    DefaultMaxRetries))]

\* stop(), called by shutdown(): isRunning = false, then this.channel and
\* this.connection are closed; the 'close' event this raises finds
\* isRunning false and schedules nothing.
Stop ==
    /\ Alive
    /\ cn.procs[1].pc = "done"
    /\ ~cn.stopped
    /\ cn' = [cn EXCEPT !.isRunning = FALSE, !.stopped = TRUE,
                        !.live = @ \ {cn.connection, cn.channel},
                        !.consumers = @ \ {cn.channel}]

\* The broker becomes unreachable, or reachable again.
BrokerDown ==
    /\ cn.brokerUp
    /\ cn' = [cn EXCEPT !.brokerUp = FALSE]

BrokerUp ==
    /\ ~cn.brokerUp
    /\ cn' = [cn EXCEPT !.brokerUp = TRUE]

ProcStep(p) ==
    \/ ConnectExhausted(p)
    \/ ConnectTry(p)
    \/ ConnectBackoffElapses(p)
    \/ SetupQueue(p)
    \/ StartConsuming(p)

NextConsumer ==
    \/ (\E p \in Procs : ConnectExhausted(p)) /\ UNCHANGED exceptCn
    \/ (\E p \in Procs : ConnectTry(p)) /\ UNCHANGED exceptCn
    \/ (\E p \in Procs : ConnectBackoffElapses(p))
          /\ UNCHANGED exceptCn
    \/ (\E p \in Procs : SetupQueue(p)) /\ UNCHANGED exceptCn
    \/ (\E p \in Procs : StartConsuming(p)) /\ UNCHANGED exceptCn
    \/ (\E c \in Procs : ConnectionDrops(c)) /\ UNCHANGED exceptCn
    \/ ReconnectTimerFires /\ UNCHANGED exceptCn
    \/ Stop /\ UNCHANGED exceptCn
    \/ BrokerDown /\ UNCHANGED exceptCn
    \/ BrokerUp /\ UNCHANGED exceptCn

SpecConsumer == InitConsumer /\ [][NextConsumer]_vars

\* Timers fire and every process takes its next step.
FairSpecConsumer ==
    /\ SpecConsumer
    /\ WF_vars(ReconnectTimerFires /\ UNCHANGED exceptCn)
    /\ \A p \in Procs : WF_vars(ProcStep(p) /\ UNCHANGED exceptCn)

\* ------------------------------------------------------------ AIValidator
\* AIValidator.validate(content, rules) of ai-validator.ts.

\* DEFAULT_FORBIDDEN_PHRASES.en
DefaultForbiddenPhrases ==
    <<"i don't know", "error", "unable to", "[placeholder]", "todo", "wip",
      "tbd">>

\* The error and warning entries validate pushes; a message is the
\* template's text with the values it interpolates.
QualityIssue ==
    [code |-> "QUALITY_ISSUE", severity |-> "error",
     message |-> <<"Response is empty or not a string">>]

TooShort(length, min) ==
    [code |-> "TOO_SHORT", severity |-> "error",
     message |-> <<"Content too short", length, min>>]

TooLong(length, max) ==
    [code |-> "TOO_LONG", severity |-> "error",
     message |-> <<"Content too long", length, max>>]

ForbiddenPhrase(phrase) ==
    [code |-> "FORBIDDEN_PHRASE", severity |-> "error",
     message |-> <<"Contains forbidden phrase", phrase>>]

ExpectedBullets ==
    [code |-> "WRONG_FORMAT", severity |-> "error",
     message |-> <<"Expected bullet-point format but received prose">>]

ExpectedProse ==
    [code |-> "WRONG_FORMAT", severity |-> "warning",
     message |-> <<"Expected prose format but received bullet points">>]

MissingBullets(min, max, bulletCount) ==
    [code |-> "MISSING_BULLETS", severity |-> "error",
     message |-> <<"Expected bullet points", min, max, bulletCount>>]

MissingKeywords(missing) ==
    [code |-> "QUALITY_ISSUE", severity |-> "warning",
     message |-> <<"Missing keywords">> \o missing]

\* _countBullets(content): content.match(...) exists for strings only.
CountBulletsThrows(content) == content.kind # "string"

CountBullets(content) == content.bullets

\* _detectFormat(content): the ratio of bullet lines to non-blank lines
\* against 0.7 and 0.3.
DetectFormatAnyBullet(content) == "bullet"

DetectFormat(content) ==
    LET lines == Max(content.lines, 1)
    IN IF 10 * content.bullets > 7 * lines THEN "bullet"
       ELSE IF 10 * content.bullets > 3 * lines THEN "mixed"
       ELSE "prose"

\* const isValid = errors.length === 0
IsValidWithoutWarnings(errors, warnings) ==
    Len(errors) = 0 /\ Len(warnings) = 0

IsValid(errors, warnings) == Len(errors) = 0

\* What a call of validate does: it throws (threw), or returns isValid,
\* errors and the messages of the warnings.
AIValidatorValidate(content, rules) ==
    IF content.kind # "string" \/ content.len = 0
    THEN IF CountBulletsThrows(content)
         THEN [NoValidation EXCEPT !.threw = TRUE]
         ELSE [threw |-> FALSE, isValid |-> FALSE,
               errors |-> <<QualityIssue>>, warnings |-> <<>>]
    ELSE LET length == content.trimmed
             Includes(phrase) == phrase \in content.has
             Lacks(phrase) == phrase \notin content.has
             forbiddenList == IF rules.forbiddenPhrases.given
                              THEN rules.forbiddenPhrases.list
                              ELSE DefaultForbiddenPhrases
             bulletCount == CountBullets(content)
             detectedFormat == DetectFormat(content)
             found == SelectSeq(forbiddenList, Includes)
             missing == SelectSeq(rules.requiredKeywords, Lacks)
             errors ==
                 (IF rules.minLength # 0 /\ length < rules.minLength
                  THEN <<TooShort(length, rules.minLength)>> ELSE <<>>)
                 \o (IF rules.maxLength # 0 /\ length > rules.maxLength
                     THEN <<TooLong(length, rules.maxLength)>> ELSE <<>>)
                 \o [i \in 1..Len(found) |-> ForbiddenPhrase(found[i])]
                 \o (IF /\ rules.requiredFormat = "bullet"
                        /\ detectedFormat # "bullet"
                        /\ bulletCount = 0
                     THEN <<ExpectedBullets>> ELSE <<>>)
                 \o (IF /\ rules.bulletPointCount # <<>>
                        /\ \/ bulletCount < rules.bulletPointCount[1]
                           \/ bulletCount > rules.bulletPointCount[2]
                     THEN <<MissingBullets(rules.bulletPointCount[1],
                                           rules.bulletPointCount[2],
                                           bulletCount)>>
                     ELSE <<>>)
             warnings ==
                 (IF /\ rules.requiredFormat = "prose"
                     /\ detectedFormat = "bullet"
                  THEN <<ExpectedProse>> ELSE <<>>)
                 \o (IF missing # <<>> THEN <<MissingKeywords(missing)>>
                     ELSE <<>>)
         IN [threw |-> FALSE,
             isValid |-> IsValid(errors, warnings),
             errors |-> errors,
             warnings |-> [i \in 1..Len(warnings) |-> warnings[i].message]]

\* AIValidator.getRulesForSection(section, 'en')
GetRulesForSectionOrPost(section) ==
    [NoRules EXCEPT !.minLength = 40, !.maxLength = 150,
                    !.requiredFormat = "prose",
                    !.forbiddenPhrases =
                        [given |-> TRUE, list |-> DefaultForbiddenPhrases]]

GetRulesForSection(section) ==
    LET defaults == [given |-> TRUE, list |-> DefaultForbiddenPhrases]
    IN CASE section = "experience" ->
              [NoRules EXCEPT !.minLength = 100, !.maxLength = 300,
                              !.requiredFormat = "bullet",
                              !.bulletPointCount = <<2, 4>>,
                              !.forbiddenPhrases = defaults]
         [] section = "project" ->
              [NoRules EXCEPT !.minLength = 80, !.maxLength = 250,
                              !.requiredFormat = "bullet",
                              !.bulletPointCount = <<1, 3>>,
                              !.forbiddenPhrases = defaults]
         [] section = "post" ->
              [NoRules EXCEPT !.minLength = 40, !.maxLength = 150,
                              !.requiredFormat = "prose",
                              !.forbiddenPhrases = defaults]
         [] section = "profile" ->
              [NoRules EXCEPT !.minLength = 80, !.maxLength = 350,
                              !.requiredFormat = "prose",
                              !.forbiddenPhrases =
                                  [given |-> TRUE,
                                   list |-> DefaultForbiddenPhrases
                                            \o <<"i am", "i have",
                                                 "i think">>]]
         [] section = "publication" ->
              [NoRules EXCEPT !.minLength = 50, !.maxLength = 200,
                              !.requiredFormat = "prose",
                              !.forbiddenPhrases = defaults]
         [] OTHER -> NoRules

\* The contents tried: the values that are not strings, '', a string of
\* white space, and strings with and without padding around lengths on both
\* sides of the limits, with no, some or mostly bullet lines, with and
\* without a forbidden phrase and the required keywords.
ContentShapes == {<<1, 0>>, <<1, 1>>, <<3, 0>>, <<3, 1>>, <<4, 3>>, <<3, 3>>}

ContentPhrases ==
    {{}, {"error"}, {"todo", "error"}, {"kubernetes"}, {"kubernetes", "go"},
     {"error", "kubernetes"}}

Contents ==
    {[NoContent EXCEPT !.kind = k] :
        k \in {"null", "undefined", "number", "object", "string"}}
    \cup {[NoContent EXCEPT !.kind = "string", !.len = 2]}
    \cup {[kind |-> "string", len |-> l[1], trimmed |-> l[2],
           lines |-> sh[1], bullets |-> sh[2], has |-> has] :
            l \in {<<1, 1>>, <<150, 150>>, <<152, 150>>, <<301, 301>>},
            sh \in ContentShapes, has \in ContentPhrases}

RuleSets ==
    [minLength : {0, 100}, maxLength : {0, 300},
     requiredFormat : {"none", "bullet", "prose"},
     bulletPointCount : {<<>>, <<2, 4>>, <<1, 50>>},
     forbiddenPhrases : {[given |-> FALSE, list |-> <<>>],
                         [given |-> TRUE, list |-> <<>>],
                         [given |-> TRUE, list |-> <<"todo", "error">>]},
     requiredKeywords : {<<>>, <<"kubernetes", "go">>}]

\* The section names rules are looked up for: those of the table, and
\* names that are not in it (the keys of the enriched data among them).
SectionNames ==
    {"experience", "project", "post", "profile", "publication",
     "experiences", "systemDesigns", "skills"}

InitValidate ==
    /\ sd = SdIdle
    /\ fg = FgIdle
    /\ pl = PlIdle
    /\ WorkerIdle
    /\ wr = WrIdle
    /\ cn = CnIdle
    /\ asm = AsmIdle
    /\ bt = BtIdle
    /\ \E content \in Contents,
          given \in [section : {"none"}, rules : RuleSets]
                    \cup {[section |-> name,
                           rules |-> GetRulesForSection(name)] :
                            name \in SectionNames} :
         vl = [VlIdle EXCEPT !.phase = "called", !.section = given.section,
                             !.content = content, !.rules = given.rules]

\* validate runs to its return or to its throw.
ValidateStep ==
    /\ vl.phase = "called"
    /\ LET result == AIValidatorValidate(vl.content, vl.rules)
       IN vl' = [vl EXCEPT !.phase = IF result.threw THEN "threw"
                                     ELSE "returned",
                           !.result = result]
    /\ UNCHANGED exceptVl

SpecValidate == InitValidate /\ [][ValidateStep]_vars

\* ------------------------------------------------- enricher and assembler
\* One item of one section on its way through AIEnricher.enhanceItem
\* (ai-enricher.ts) and the entry assemblePayload builds from it
\* (payload-assembler.ts).

\* The sections enhanceContentWithAI enhances: the section name it passes,
\* the field assemblePayload fills for the section's list, and the
\* section's configuration (bulletPoints 0: not set).
Sections ==
    {[name |-> "experience", field |-> "description", format |-> "bullet",
      minLength |-> 100, maxLength |-> 2000, bulletPoints |-> 3,
      enable |-> TRUE],
     [name |-> "project", field |-> "description", format |-> "bullet",
      minLength |-> 100, maxLength |-> 2000, bulletPoints |-> 2,
      enable |-> TRUE],
     [name |-> "post", field |-> "excerpt", format |-> "prose",
      minLength |-> 60, maxLength |-> 800, bulletPoints |-> 0,
      enable |-> TRUE],
     [name |-> "publication", field |-> "description", format |-> "prose",
      minLength |-> 80, maxLength |-> 800, bulletPoints |-> 0,
      enable |-> TRUE]}

\* The lengths of the strings tried: short, and just over each limit.
Lengths == {1, OtherCap + 1, DescriptionCap + 1, 2001}

\* The texts of a source: whole (from = 0), of each length tried.
Text(src) == [src : {src}, from : {0}, len : Lengths]

Truthy(str) == str.len > 0

\* truncate(str, max)
TruncateKeepsTail(str, max) ==
    IF str = Null THEN Empty
    ELSE IF str.len <= max THEN str
    ELSE [str EXCEPT !.from = @ + (str.len - max), !.len = max]

Truncate(str, max) ==
    IF str = Null THEN Empty
    ELSE IF str.len <= max THEN str
    ELSE [str EXCEPT !.len = max]

\* `${section === 'post' ? 'excerpt' : 'description'}_optimized`
OptimizedKey(sectionName) ==
    IF sectionName = "post" THEN "excerpt" ELSE "description"

\* What the AI call does for one item: withRetry rejects with an error, or
\* generateContent resolves with the body of the service's reply, whose
\* content is a text (of three lines, all or none of them bullets, with or
\* without a forbidden phrase), '' or missing.
AIOutcomes ==
    [kind : {"throws"}, error : {<<"Error", "ECONNRESET">>,
                                 <<"Error", "status", "401">>},
     content : {Null}, lines : {0}, bullets : {0}, has : {{}},
     tokens_used : {0}]
    \cup [kind : {"response"}, error : {<<>>}, content : {Null, Empty},
          lines : {0}, bullets : {0}, has : {{}}, tokens_used : {7}]
    \cup [kind : {"response"}, error : {<<>>}, content : Text("ai"),
          lines : {3}, bullets : {0, 3}, has : {{}, {"error"}},
          tokens_used : {7}]

\* response.content as validate sees it.
ContentOf(response) ==
    [kind |-> IF response.content = Null THEN "undefined" ELSE "string",
     len |-> response.content.len, trimmed |-> response.content.len,
     lines |-> response.lines, bullets |-> response.bullets,
     has |-> response.has]

\* The rules enhanceItem validates with: those of the section, with the
\* lengths and the format of the section's configuration, and a bullet
\* count of 1 to 50 when the configuration sets bulletPoints.
ValidationRules(section) ==
    [GetRulesForSection(section.name) EXCEPT
        !.minLength = section.minLength,
        !.maxLength = section.maxLength,
        !.requiredFormat = section.format,
        !.bulletPointCount = IF section.bulletPoints # 0 THEN <<1, 50>>
                             ELSE @]

\* The item returned for a valid response.
Enhanced(item, section, response) ==
    [item EXCEPT !.opt = response.content,
                 !.optKey = OptimizedKey(section.name),
                 !.ai = [status |-> "success", validated |-> TRUE,
                         tokensUsed |-> response.tokens_used,
                         error |-> <<>>]]

\* validation.errors[0]?.message || 'Validation failed'
FirstError(validation) ==
    IF Len(validation.errors) > 0 THEN validation.errors[1].message
    ELSE <<"Validation failed">>

\* The item returned for an invalid response when the fallback is not
\* skip: the AI text cut to maxLength (truncate) or the original content.
FellBackAsValidated(item, extracted, section, fallback, response, validation) ==
    [item EXCEPT !.opt = extracted,
                 !.optKey = OptimizedKey(section.name),
                 !.ai = [status |-> "failed", validated |-> TRUE,
                         tokensUsed |-> response.tokens_used,
                         error |-> FirstError(validation)]]

FellBack(item, extracted, section, fallback, response, validation) ==
    [item EXCEPT
        !.opt = IF fallback = "truncate"
                THEN [response.content EXCEPT
                        !.len = Min(@, section.maxLength)]
                ELSE extracted,
        !.optKey = OptimizedKey(section.name),
        !.ai = [status |-> "failed", validated |-> FALSE,
                tokensUsed |-> response.tokens_used,
                error |-> FirstError(validation)]]

\* The item returned by the catch: the item with failed metadata and
\* String(err).
Caught(item, err) ==
    [item EXCEPT !.ai = [status |-> "failed", validated |-> FALSE,
                         tokensUsed |-> 0, error |-> err]]

\* enhanceItem(item, content, section, config, enhancerConfig): the item
\* it resolves with. Everything after the test of config.enable runs
\* inside the try, so a throw of the AI call or of validate ends in the
\* catch.
EnhanceItem(item, extracted, section, fallback, outcome) ==
    IF ~section.enable THEN item
    ELSE IF outcome.kind = "throws" THEN Caught(item, outcome.error)
    ELSE LET validation ==
                 AIValidatorValidate(ContentOf(outcome),
                                     ValidationRules(section))
         IN IF validation.threw
            THEN Caught(item, <<"TypeError", "content.match">>)
            ELSE IF validation.isValid
            THEN Enhanced(item, section, outcome)
            ELSE IF fallback = "skip" THEN item
            ELSE FellBack(item, extracted, section, fallback, outcome,
                          validation)

\* item[`${fieldName}_optimized`]
OptimizedField(item, fieldName) ==
    IF item.optKey = fieldName THEN item.opt ELSE Null

Cap(fieldName) == IF fieldName = "description" THEN DescriptionCap ELSE OtherCap

\* selectOptimalContent(item, fieldName)
SelectOptimalContentAlwaysRaw(item, fieldName) ==
    Truncate(IF Truthy(item.raw) THEN item.raw ELSE Empty, Cap(fieldName))

SelectOptimalContent(item, fieldName) ==
    IF /\ item.ai # NoMeta
       /\ item.ai.validated
       /\ item.ai.status = "success"
       /\ Truthy(OptimizedField(item, fieldName))
    THEN Truncate(OptimizedField(item, fieldName), Cap(fieldName))
    ELSE Truncate(IF Truthy(item.raw) THEN item.raw ELSE Empty,
                  Cap(fieldName))

\* e._ai?.validated && e._ai?.status === 'success'
AiEnhanced(item) ==
    IF item.ai = NoMeta THEN "undefined"
    ELSE IF ~item.ai.validated THEN "false"
    ELSE IF item.ai.status = "success" THEN "true" ELSE "false"

\* The entry assemblePayload maps the item to:
\*   { ...e, <field>: selectOptimalContent(e, <field>),
\*     _aiEnhanced: ..., _ai: undefined }
\* The spread copies the item's other fields as they are.
AssembleEntry(item, fieldName) ==
    [content |-> SelectOptimalContent(item, fieldName),
     other |-> item.other,
     aiEnhanced |-> AiEnhanced(item),
     ai |-> "undefined"]

\* 'no-reply@example.com'
Sentinel ==
    <<"n", "o", "-", "r", "e", "p", "l", "y", "@", "e", "x", "a", "m", "p",
      "l", "e", ".", "c", "o", "m">>

\* [^\s@]
NotSpaceNorAt(c) == c # " " /\ c # "@"

\* /^[^\s@]+@[^\s@]+\.[^\s@]+$/.test(s)
EmailRegexTestAnyAt(s) == \E i \in 1..Len(s) : s[i] = "@"

EmailRegexTest(s) ==
    \E at \in {i \in 2..Len(s) : s[i] = "@"} :
        /\ \A i \in 1..Len(s) : i # at => NotSpaceNorAt(s[i])
        /\ \E dot \in (at + 2)..(Len(s) - 1) : s[dot] = "."

\* truncate(str, max) of an email address
TruncateEmail(s, max) == IF Len(s) <= max THEN s ELSE SubSeq(s, 1, max)

\* payload.profile.email: the profile's email, else the job's, else '',
\* cut to 200 characters, replaced by the sentinel when it is empty or
\* fails the regular expression.
ProfileEmail(job) ==
    LET emailVal == TruncateEmail(IF job.profileEmail # <<>>
                                  THEN job.profileEmail ELSE job.userEmail,
                                  EmailCap)
    IN IF emailVal = <<>> \/ ~EmailRegexTest(emailVal)
       THEN Sentinel ELSE emailVal

\* assemblePayload: the fields of the payload that come from the job and
\* the user profile; note is one string-valued entry of job.metadata
\* (Null: no such entry), cut to 1000 characters.
AssemblePayload(job) ==
    [jobDescription |-> Truncate(IF Truthy(job.jobDescription)
                                 THEN job.jobDescription ELSE Empty,
                                 JobDescriptionCap),
     note |-> IF job.note = Null THEN Null
              ELSE Truncate(job.note, MetadataCap),
     email |-> ProfileEmail(job)]

\* A fetched item of a section, not enhanced yet.
InitEnrich ==
    /\ sd = SdIdle
    /\ fg = FgIdle
    /\ pl = PlIdle
    /\ WorkerIdle
    /\ vl = VlIdle
    /\ bt = BtIdle
    /\ wr = WrIdle
    /\ cn = CnIdle
    /\ \E raw \in {Null, Empty} \cup Text("raw"),
          other \in {Null} \cup Text("title"), sec \in Sections,
          enable \in BOOLEAN, fallback \in {"raw", "truncate", "skip"} :
         asm = [AsmIdle EXCEPT
                  !.phase = "fetched",
                  !.item.raw = raw,
                  !.item.other = other,
                  !.section = [sec EXCEPT !.enable = enable],
                  !.fallback = fallback]

\* enhanceItems calls enhanceItem with contentExtractor(item), the raw
\* field or '' here.
EnhanceItemStep ==
    /\ asm.phase = "fetched"
    /\ \E outcome \in IF asm.section.enable THEN AIOutcomes
                       ELSE {NoOutcome} :
         asm' = [asm EXCEPT
                   !.phase = "enhanced",
                   !.outcome = outcome,
                   !.item = EnhanceItem(asm.item,
                                        IF Truthy(asm.item.raw)
                                        THEN asm.item.raw ELSE Empty,
                                        asm.section, asm.fallback, outcome)]
    /\ UNCHANGED exceptAsm

\* assemblePayload maps the item, enhanced or (no job description, or
\* enhancement failed as a whole) as fetched.
AssembleStep ==
    /\ asm.phase \in {"fetched", "enhanced"}
    /\ asm' = [asm EXCEPT !.phase = "assembled",
                          !.out = AssembleEntry(asm.item, asm.section.field),
                          !.payload = AssemblePayload(asm.job)]
    /\ UNCHANGED exceptAsm

NextEnrich ==
    \/ EnhanceItemStep
    \/ AssembleStep

SpecEnrich == InitEnrich /\ [][NextEnrich]_vars

\* ------------------------------------------------------------ enhanceItems
\* AIEnricher.enhanceItems(items, contentExtractor, section, config,
\* enhancerConfig): Promise.all over one enhanceItem per item.

\* The promise of one enhanceItem call once its AI call has completed:
\* enhanceItem returns from its try or from its catch, so it fulfils.
EnhanceItemPromiseRejectsOnFailure(item, extracted, section, fallback, outcome) ==
    IF outcome.kind = "throws"
    THEN [state |-> "rejected", value |-> item]
    ELSE [state |-> "fulfilled",
          value |-> EnhanceItem(item, extracted, section, fallback, outcome)]

EnhanceItemPromise(item, extracted, section, fallback, outcome) ==
    [state |-> "fulfilled",
     value |-> EnhanceItem(item, extracted, section, fallback, outcome)]

Pending == [state |-> "pending", value |-> AsmIdle.item]

\* The value Promise.all fulfils with: the promises' values by position.
CollectedInCompletionOrder(promises, order) ==
    [k \in 1..Len(order) |-> promises[order[k]].value]

Collected(promises, order) ==
    [i \in 1..Len(promises) |-> promises[i].value]

\* The fetched items of a batch, and the outcomes of their AI calls.
BatchItems ==
    [raw : {t \in Text("raw") : t.len \in {1, DescriptionCap + 1}},
     other : {Null, [src |-> "title", from |-> 0, len |-> 1]},
     opt : {Null}, optKey : {"none"}, ai : {NoMeta}]

BatchOutcomes ==
    {o \in AIOutcomes : /\ o.has = {}
                        /\ o.content.len \in {0, DescriptionCap + 1}
                        /\ o.error # <<"Error", "status", "401">>}

Batches == UNION {[1..n -> BatchItems] : n \in 0..MaxBatch}

InitBatch ==
    /\ sd = SdIdle
    /\ fg = FgIdle
    /\ pl = PlIdle
    /\ WorkerIdle
    /\ wr = WrIdle
    /\ cn = CnIdle
    /\ asm = AsmIdle
    /\ vl = VlIdle
    /\ \E items \in Batches, sec \in Sections, enable \in BOOLEAN,
          fallback \in {"raw", "truncate", "skip"} :
         bt = [BtIdle EXCEPT !.phase = "called", !.items = items,
                             !.section = [sec EXCEPT !.enable = enable],
                             !.fallback = fallback]

\* enhanceItems up to its await: it returns the items as they are for a
\* disabled section or an empty batch, else it calls enhanceItem for every
\* item, each of which starts its AI call.
EnhanceItemsStart ==
    /\ bt.phase = "called"
    /\ bt' = IF ~bt.section.enable \/ Len(bt.items) = 0
             THEN [bt EXCEPT !.phase = "returned", !.results = bt.items]
             ELSE [bt EXCEPT
                     !.phase = "awaiting",
                     !.promises = [i \in 1..Len(bt.items) |-> Pending],
                     !.outcomes = [i \in 1..Len(bt.items) |-> NoOutcome],
                     !.calls = Len(bt.items)]
    /\ UNCHANGED exceptBt

\* The AI call of one item completes and its enhanceItem settles.
ItemCompletes(i) ==
    /\ bt.phase = "awaiting"
    /\ bt.promises[i].state = "pending"
    /\ \E outcome \in BatchOutcomes :
         bt' = [bt EXCEPT
                  !.promises[i] =
                      EnhanceItemPromise(bt.items[i],
                                         IF Truthy(bt.items[i].raw)
                                         THEN bt.items[i].raw ELSE Empty,
                                         bt.section, bt.fallback, outcome),
                  !.outcomes[i] = outcome,
                  !.order = Append(@, i)]
    /\ UNCHANGED exceptBt

\* Promise.all settles: it rejects once a promise has rejected, and fulfils
\* with the values once all have fulfilled.
Join ==
    /\ bt.phase = "awaiting"
    /\ \/ \E i \in 1..Len(bt.promises) : bt.promises[i].state = "rejected"
       \/ \A i \in 1..Len(bt.promises) : bt.promises[i].state = "fulfilled"
    /\ bt' = IF \E i \in 1..Len(bt.promises) :
                   bt.promises[i].state = "rejected"
             THEN [bt EXCEPT !.phase = "rejected"]
             ELSE [bt EXCEPT !.phase = "returned",
                             !.results = Collected(bt.promises, bt.order)]
    /\ UNCHANGED exceptBt

NextBatch ==
    \/ EnhanceItemsStart
    \/ \E i \in 1..MaxBatch : i <= Len(bt.items) /\ ItemCompletes(i)
    \/ Join

SpecBatch == InitBatch /\ [][NextBatch]_vars

\* assemblePayload on its own: a job, a user profile and one fetched entry
\* of the experiences or the projects.
Rep(c, n) == [i \in 1..n |-> c]

\* The email addresses tried: none, short ones well-formed or not, and ones
\* longer than 200 characters whose first 200 are or are not well-formed.
Emails ==
    {<<>>,
     <<"a", "@", "b", ".", "c">>,
     <<"a", "b", "c">>,
     <<"a", "@", "b">>,
     <<"a", " ", "@", "b", ".", "c">>,
     <<"a", "@", "b", "@", "c", ".", "d">>,
     <<"a", "@", "b", ".">>,
     Rep("a", EmailCap) \o <<"@", "b", ".", "c">>,
     <<"a", "@", "b", ".">> \o Rep("c", EmailCap),
     <<"a", "@", "b", ".">> \o Rep("c", EmailCap - 4) \o <<" ">>}

JobLengths == {1, MetadataCap + 1, JobDescriptionCap + 1}

InitPayload ==
    /\ sd = SdIdle
    /\ fg = FgIdle
    /\ pl = PlIdle
    /\ WorkerIdle
    /\ vl = VlIdle
    /\ bt = BtIdle
    /\ wr = WrIdle
    /\ cn = CnIdle
    /\ \E raw \in {Null} \cup Text("raw"), other \in {Null} \cup Text("title"),
          sec \in {x \in Sections : x.name \in {"experience", "project"}},
          jd \in {Null, Empty} \cup [src : {"job"}, from : {0}, len : JobLengths],
          note \in {Null, Empty}
                   \cup [src : {"note"}, from : {0}, len : JobLengths],
          userEmail \in Emails, profileEmail \in Emails :
         asm = [AsmIdle EXCEPT
                  !.phase = "fetched",
                  !.item.raw = raw,
                  !.item.other = other,
                  !.section = [sec EXCEPT !.enable = FALSE],
                  !.job = [jobDescription |-> jd, note |-> note,
                           userEmail |-> userEmail,
                           profileEmail |-> profileEmail]]

SpecPayload == InitPayload /\ [][AssembleStep]_vars

\* ------------------------------------------------- processJob with polling
\* The processor that asks the resume service to generate and then polls
\* getResumeStatus until the render is completed or failed or the wait
\* window is used up.
GenerationTimeout == "Resume generation timeout"
GenerationFailed == "Resume generation failed"

\* while (elapsed < maxWaitTime && !completed)
LoopContinuesInclusive(p) == p.elapsed <= MaxWaitTime /\ ~p.completed

LoopContinues(p) == p.elapsed < MaxWaitTime /\ ~p.completed

\* A throw inside the try block: control moves to the catch block, whose
\* first await is the failed-status write.
Thrown(p, err) == [p EXCEPT !.pc = "catch", !.error = err]

\* The end of one iteration: the loop test, and after the loop the
\* `if (!completed) throw new Error('Resume generation timeout')`.
NextIteration(p) ==
    IF LoopContinues(p) THEN [p EXCEPT !.pc = "poll"]
    ELSE IF ~p.completed THEN Thrown(p, GenerationTimeout)
    ELSE [p EXCEPT !.pc = "resolved"]

InitPoll ==
    /\ sd = SdIdle
    /\ fg = FgIdle
    /\ WorkerIdle
    /\ wr = WrIdle
    /\ cn = CnIdle
    /\ asm = AsmIdle
    /\ vl = VlIdle
    /\ bt = BtIdle
    /\ pl = [PlIdle EXCEPT !.pc = "start"]

\* processJob up to the loop: the processing write, the job lookup and the
\* generateResume call, any of which may throw; then the first loop test.
PollBegin ==
    /\ pl.pc = "start"
    /\ \E o \in {"ok", "writeThrows", "notFound", "generateThrows"} :
         pl' = CASE o = "writeThrows" ->
                      Thrown(pl, DbError("processing"))
                 [] o = "notFound" ->
                      Thrown([pl EXCEPT !.status = "processing"], JobNotFound)
                 [] o = "generateThrows" ->
                      Thrown([pl EXCEPT !.status = "processing"],
                             "generateResume error")
                 [] OTHER ->
                      NextIteration([pl EXCEPT !.status = "processing"])
    /\ UNCHANGED exceptPl

\* await getResumeStatus and the branch on status.status: completed sets the
\* flag and goes on to storeResume when a pdfUrl came, else to the completed
\* write; failed throws; any other status goes on to the pause.
GetResumeStatus ==
    /\ pl.pc = "poll"
    /\ \E st \in {"pending", "completed", "failed", "throws"},
          url \in BOOLEAN :
         /\ url => st = "completed"
         /\ LET p == [pl EXCEPT !.polls = @ + 1, !.polled = st,
                                !.pdfUrl = url]
            IN  pl' = CASE st = "throws" ->
                           Thrown(p, "getResumeStatus error")
                      [] st = "failed" -> Thrown(p, GenerationFailed)
                      [] st = "completed" ->
                           [p EXCEPT !.completed = TRUE,
                                     !.pc = IF url THEN "store"
                                            ELSE "writeCompleted"]
                      [] OTHER -> [p EXCEPT !.pc = "sleep"]
    /\ UNCHANGED exceptPl

\* storeResume of the polling processor: downloadResume, then
\* createResumeRecord; its catch logs and rethrows.
PollStoreResume ==
    /\ pl.pc = "store"
    /\ \E o \in {"ok", "downloadThrows", "recordThrows"} :
         pl' = CASE o = "downloadThrows" -> Thrown(pl, "downloadResume error")
                 [] o = "recordThrows" -> Thrown(pl, DbError("record"))
                 [] OTHER -> [pl EXCEPT !.stores = @ + 1,
                                        !.pc = "writeCompleted"]
    /\ UNCHANGED exceptPl

\* await updateResumeJobStatus(jobId, 'completed', ...); then the pause is
\* skipped, the loop test fails and processJob resolves.
PollWriteCompleted ==
    /\ pl.pc = "writeCompleted"
    /\ \E ok \in BOOLEAN :
         pl' = IF ok
               THEN NextIteration([pl EXCEPT !.status = "completed",
                                             !.completedWrites = @ + 1])
               ELSE Thrown(pl, DbError("completed"))
    /\ UNCHANGED exceptPl

\* if (!completed) { await setTimeout(pollInterval); elapsed += pollInterval }
PollSleep ==
    /\ pl.pc = "sleep"
    /\ pl' = NextIteration([pl EXCEPT !.elapsed = @ + PollInterval])
    /\ UNCHANGED exceptPl

\* The catch block: the failed-status write with the error's message, then
\* `throw err`; when the write itself rejects, processJob rejects with the
\* write's error and the row keeps its status.
PollCatch ==
    /\ pl.pc = "catch"
    /\ \E ok \in BOOLEAN :
         pl' = IF ok
               THEN [pl EXCEPT !.pc = "rejected", !.failedWrites = @ + 1,
                               !.status = "failed", !.rejected = pl.error]
               ELSE [pl EXCEPT !.pc = "rejected", !.failedWrites = @ + 1,
                               !.rejected = DbError("failed")]
    /\ UNCHANGED exceptPl

NextPoll ==
    \/ PollBegin
    \/ GetResumeStatus
    \/ PollStoreResume
    \/ PollWriteCompleted
    \/ PollSleep
    \/ PollCatch

SpecPoll == InitPoll /\ [][NextPoll]_vars

\* ------------------------------------------------------- source groups
\* The two fetch groups of processJob. Each is one call
\*   withRetry(() => Promise.all([fetch, ...]), operation)
\* so that fn, the function async-retry invokes on every attempt, is the
\* whole group.
FetchGroups ==
    [fetch_posts_data |->
        {"getTechnicalWritings", "getPosts", "getSystemDesigns"},
     fetch_management_data |-> {"getProjects", "getExperiences"}]

\* Promise.all over the group's fetches: every fetch is invoked; the group
\* resolves when all resolve and rejects with a rejection of one of them.
\* The outcome of fn given each fetch's outcome, as withRetry sees it: a
\* non-retryable message bails, any other error is retried.
PromiseAll(outs) ==
    IF \A f \in DOMAIN outs : outs[f] = "ok" THEN {"ok"}
    ELSE {outs[f] : f \in {g \in DOMAIN outs : outs[g] # "ok"}}

InitFetch ==
    /\ sd = SdIdle
    /\ WorkerIdle
    /\ wr = WrIdle
    /\ cn = CnIdle
    /\ asm = AsmIdle
    /\ vl = VlIdle
    /\ bt = BtIdle
    /\ pl = PlIdle
    /\ \E g \in DOMAIN FetchGroups, cfg \in RetryConfigs :
         fg = [FgIdle EXCEPT !.pc = "calling", !.group = g,
                             !.retries = Retries(cfg),
                             !.calls = [f \in FetchGroups[g] |-> 0],
                             !.failures = [f \in FetchGroups[g] |-> 0]]

\* One invocation of fn by async-retry: all fetches of the group are invoked;
\* each resolves, fails with a retryable error or fails with a non-retryable
\* one. The group's rejection is bailed on or retried while retries are left.
GroupAttempt ==
    /\ fg.pc = "calling"
    /\ \E outs \in [FetchGroups[fg.group] -> {"ok", "transient", "fatal"}] :
         \E out \in PromiseAll(outs) :
            fg' = [fg EXCEPT
                     !.attempts = @ + 1,
                     !.calls = [f \in DOMAIN @ |-> @[f] + 1],
                     !.failures = [f \in DOMAIN @ |->
                                     IF outs[f] = "ok" THEN @[f]
                                     ELSE @[f] + 1],
                     !.bailed = (out = "fatal"),
                     !.pc = CASE out = "ok" -> "resolved"
                              [] out = "fatal" -> "rejected"
                              [] fg.attempts < fg.retries -> "waiting"
                              [] OTHER -> "rejected"]
    /\ UNCHANGED exceptFg

\* The timeout of the pending retry elapses: fn is invoked again.
GroupRetryTimerFires ==
    /\ fg.pc = "waiting"
    /\ fg' = [fg EXCEPT !.pc = "calling"]
    /\ UNCHANGED exceptFg

NextFetch ==
    \/ GroupAttempt
    \/ GroupRetryTimerFires

SpecFetch == InitFetch /\ [][NextFetch]_vars

\* ---------------------------------------------------------------- shutdown
\* shutdown() of index.ts, called by the signal handlers, beside one run of
\* processJob that the consumer started before.

\* The pools in the order shutdown() closes them.
PoolOrder == <<"dbJobs", "dbPosts", "dbManagement", "dbAuth">>

\* The awaited steps of processJob and the pool each one queries; the
\* identity lookup has its own try/catch, the steps without a pool call the
\* AI and render collaborators.
RunSteps ==
    <<[op |-> "status:processing", pool |-> "dbJobs", caught |-> FALSE],
      [op |-> "getJob", pool |-> "dbJobs", caught |-> FALSE],
      [op |-> "fetchPosts", pool |-> "dbPosts", caught |-> FALSE],
      [op |-> "fetchManagement", pool |-> "dbManagement", caught |-> FALSE],
      [op |-> "enhance", pool |-> "none", caught |-> TRUE],
      [op |-> "identity", pool |-> "dbAuth", caught |-> TRUE],
      [op |-> "render", pool |-> "none", caught |-> FALSE],
      [op |-> "store", pool |-> "dbJobs", caught |-> FALSE],
      [op |-> "status:completed", pool |-> "dbJobs", caught |-> FALSE]>>

\* pool.query after pool.end() rejects.
PoolClosed(pool) == pool \in sd.closed

\* The worker is initialized and consuming.
InitShutdown ==
    /\ WorkerIdle
    /\ wr = WrIdle
    /\ cn = CnIdle
    /\ asm = AsmIdle
    /\ vl = VlIdle
    /\ bt = BtIdle
    /\ pl = PlIdle
    /\ fg = FgIdle
    /\ sd = [SdIdle EXCEPT !.pc = "running", !.consumer = "consuming"]

\* A delivery arrives and the consume callback calls processJob.
RunStarts ==
    /\ sd.pc = "running"
    /\ sd.run = "none"
    /\ sd' = [sd EXCEPT !.run = "try"]
    /\ UNCHANGED exceptSd

\* One awaited step of processJob's try block. A query on a closed pool
\* rejects; any step may fail; a failure enters the catch block unless the
\* step has its own. The completed write is the last step.
RunStep ==
    /\ ~sd.exited
    /\ sd.run = "try"
    /\ LET step == RunSteps[sd.at + 1]
           onClosed == PoolClosed(step.pool)
       IN \E ok \in BOOLEAN :
            /\ onClosed => ~ok
            /\ sd' = [sd EXCEPT
                        !.usedClosed = @ \/ onClosed,
                        !.at = IF ok \/ step.caught THEN @ + 1 ELSE @,
                        !.terminal =
                            IF ok /\ step.op = "status:completed"
                            THEN "completed" ELSE @,
                        !.run =
                            IF ~ok /\ ~step.caught THEN "catch"
                            ELSE IF sd.at + 1 = Len(RunSteps) THEN "resolved"
                            ELSE "try"]
    /\ UNCHANGED exceptSd

\* The catch block of processJob: the failed-status write on dbJobs, then
\* the rethrow.
RunCatch ==
    /\ ~sd.exited
    /\ sd.run = "catch"
    /\ \E ok \in BOOLEAN :
         /\ PoolClosed("dbJobs") => ~ok
         /\ sd' = [sd EXCEPT
                     !.usedClosed = @ \/ PoolClosed("dbJobs"),
                     !.terminal = IF ok THEN "failed" ELSE @,
                     !.run = "rejected"]
    /\ UNCHANGED exceptSd

\* SIGTERM or SIGINT: shutdown() is called and calls consumer.stop(), which
\* sets isRunning = false and closes the channel and the connection.
ShutdownBegins ==
    /\ sd.pc = "running"
    /\ sd' = [sd EXCEPT !.pc = "stopping"]
    /\ UNCHANGED exceptSd

\* await consumer.stop() returns.
ConsumerStopped ==
    /\ sd.pc = "stopping"
    /\ sd' = [sd EXCEPT !.pc = "closing", !.consumer = "stopped"]
    /\ UNCHANGED exceptSd

\* await db.close() for the next pool in order: pool.end().
ClosePool ==
    /\ sd.pc = "closing"
    /\ Cardinality(sd.closed) < Len(PoolOrder)
    /\ sd' = [sd EXCEPT
                !.closed = @ \cup {PoolOrder[Cardinality(sd.closed) + 1]}]
    /\ UNCHANGED exceptSd

\* The metrics and fallback servers are stopped and process.exit(0) is
\* called: nothing runs after it.
ProcessExit ==
    /\ sd.pc = "closing"
    /\ Cardinality(sd.closed) = Len(PoolOrder)
    /\ sd' = [sd EXCEPT !.pc = "exited", !.exited = TRUE]
    /\ UNCHANGED exceptSd

NextShutdown ==
    \/ RunStarts
    \/ RunStep
    \/ RunCatch
    \/ ShutdownBegins
    \/ ConsumerStopped
    \/ ClosePool
    \/ ProcessExit

SpecShutdown == InitShutdown /\ [][NextShutdown]_vars

\* ------------------------------------------------------------------- Init
\* desc is job.jobDescription: "blank" when it is absent, empty or only
\* white space, "text" otherwise.
MsgShapes ==
    {s \in [body : {"json", "malformed"}, job : {NoRow} \cup Jobs,
            headers : Headers, desc : {"blank", "text"}] :
        s.body = "malformed" => s.job = NoRow /\ s.desc = "blank"}

Init ==
    /\ sd = SdIdle
    /\ fg = FgIdle
    /\ pl = PlIdle
    /\ msgs \in [Msgs -> MsgShapes]
    /\ ready = Msgs
    /\ dead = {}
    /\ dl = <<>>
    /\ chan = 1
    /\ chanState = [c \in Channels |-> IF c = 1 THEN "open" ELSE "unused"]
    /\ timers = 0
    /\ status \in [Jobs -> {"pending", "cancelled"}]
    /\ meta = [j \in Jobs |-> EmptyMeta]
    /\ wr = WrIdle
    /\ cn = CnIdle
    /\ asm = AsmIdle
    /\ vl = VlIdle
    /\ bt = BtIdle

\* ----------------------------------------------------------------- broker
\* What the broker does with basic.ack / basic.nack of delivery tag t sent
\* on channel c, the deliveries being dlx and the queue rdy: the unacked
\* delivery of that tag is settled; a tag the channel does not know closes
\* the channel (PRECONDITION_FAILED) and its unacked deliveries return to
\* the queue.
SettledState(kind, requeue) ==
    IF kind = "ack" THEN "acked" ELSE IF requeue THEN "requeued" ELSE "dead"

BrokerSettle(dlx, rdy, c, t, kind, requeue) ==
    LET tgt == {i \in DOMAIN dlx :
                  dlx[i].chan = c /\ dlx[i].tag = t /\ dlx[i].st = "unacked"}
        open == {i \in DOMAIN dlx : dlx[i].chan = c /\ dlx[i].st = "unacked"}
    IN IF tgt # {}
       THEN LET i == CHOOSE i \in tgt : TRUE IN
            /\ dl' = [dlx EXCEPT ![i].st = SettledState(kind, requeue)]
            /\ ready' = IF kind = "nack" /\ requeue
                        THEN rdy \cup {dlx[i].msg} ELSE rdy
            /\ dead' = IF kind = "nack" /\ ~requeue
                       THEN dead \cup {dlx[i].msg} ELSE dead
            /\ chanState' = chanState
       ELSE /\ dl' = [i \in DOMAIN dlx |->
                        IF i \in open THEN [dlx[i] EXCEPT !.st = "returned"]
                        ELSE dlx[i]]
            /\ ready' = rdy \cup {dlx[i].msg : i \in open}
            /\ dead' = dead
            /\ chanState' = [chanState EXCEPT ![c] = "chanClosed"]

\* ------------------------------------------------------- consume callback
Call(kind, requeue, c, sent) ==
    [kind |-> kind, requeue |-> requeue, chan |-> c, sent |-> sent]

\* The callback of a delivery has returned: the locals of the run (the
\* caught error, the render response, the record of its steps) are gone.
\* What the run did to the channel and to the table stays on record.
Returned(r) ==
    [r EXCEPT !.pc = "done", !.log = <<>>, !.resp = NoResponse,
              !.err = "", !.thrown = "", !.data = "raw"]

\* The retry count the callback of delivery d reads from its message.
ObservedRetryCount(dlx, d) == RetryCountOf(msgs[dlx[d].msg].headers)

\* The catch block of the callback of delivery d: nack(msg, false, true)
\* while x-retry-count < 3, else nack(msg, false, false). The call goes to
\* the channel the consumer holds now, with the delivery tag of msg. On a
\* closed channel the nack throws and the callback's promise rejects.
CatchBlock(dlx, rdy, d) ==
    LET requeue == ShouldRequeue(ObservedRetryCount(dlx, d)) IN
    IF chanState[chan] = "open"
    THEN BrokerSettle(
           [dlx EXCEPT ![d] =
              Returned([dlx[d] EXCEPT
                 !.issued = Append(@, Call("nack", requeue, chan, TRUE))])],
           rdy, chan, dlx[d].tag, "nack", requeue)
    ELSE /\ dl' = [dlx EXCEPT ![d] =
                     Returned([dlx[d] EXCEPT
                        !.issued =
                           Append(@, Call("nack", requeue, chan, FALSE))])]
         /\ ready' = rdy
         /\ UNCHANGED <<dead, chanState>>

NextTag(c) == 1 + Cardinality({i \in Deliveries : dl[i].chan = c})

NewDelivery(m, c) ==
    [msg |-> m, chan |-> c, tag |-> NextTag(c), st |-> "unacked",
     pc |-> AfterDecode(msgs[m].body),
     thrown |-> IF msgs[m].body = "json" THEN "" ELSE SyntaxError,
     resp |-> NoResponse, err |-> "", outcome |-> "", persisted |-> "",
     data |-> "raw", log |-> <<>>, issued |-> <<>>]

\* The broker hands a ready message to the consume callback of an open
\* channel. The callback decodes the body at once: a body that parses
\* starts the handler (processJob runs up to its first await), a body that
\* does not parse goes through the catch block in the same turn. The
\* broker delivers on a channel only while fewer than prefetchCount of the
\* channel's deliveries are unacknowledged (channel.prefetch).
Deliver(m, c) ==
    /\ m \in ready
    /\ chanState[c] = "open"
    /\ Len(dl) < MaxDeliveries
    /\ Cardinality({i \in Deliveries :
                       dl[i].chan = c /\ dl[i].st = "unacked"}) < PrefetchCount
    /\ LET dlx == Append(dl, NewDelivery(m, c))
           d == Len(dl) + 1
       IN IF dlx[d].pc = "catch"
          THEN CatchBlock(dlx, ready \ {m}, d)
          ELSE /\ dl' = dlx
               /\ ready' = ready \ {m}
               /\ UNCHANGED <<dead, chanState>>
    /\ UNCHANGED <<msgs, chan, timers, status, meta>>

\* ------------------------------------------------------ resume_jobs table
\* DatabaseClient.updateResumeJobStatus: UPDATE resume_jobs SET status,
\* metadata WHERE id = jobId. No condition on the current status; an id
\* without a row updates nothing.
UpdateResumeJobStatus(j, s, m) ==
    /\ status' = IF j \in Jobs THEN [status EXCEPT ![j] = s] ELSE status
    /\ meta' = IF j \in Jobs THEN [meta EXCEPT ![j] = m] ELSE meta

\* ------------------------------------------------------------- processJob
\* The run of delivery d after operation op returned, continuing at next.
StepOk(d, op, next) ==
    [dl[d] EXCEPT !.log = Append(@, Ev(op, TRUE)), !.pc = next]

\* The run of delivery d after operation op threw e: processJob's catch
\* block is entered, whose first await is the failed-status write.
StepThrowsPostsIgnored(d, op, e) ==
    [dl[d] EXCEPT !.log = Append(@, Ev(op, FALSE)),
                  !.err = IF op = "fetchPosts" THEN @ ELSE e,
                  !.pc = IF op = "fetchPosts" THEN "fetchManagement"
                         ELSE "setFailed"]

StepThrows(d, op, e) ==
    [dl[d] EXCEPT !.log = Append(@, Ev(op, FALSE)), !.err = e,
                  !.pc = "setFailed"]

\* await this.dbJobs.updateResumeJobStatus(job.jobId, 'processing', ...)
SetProcessing(d) ==
    /\ dl[d].pc = "setProcessing"
    /\ \/ /\ dl' = [dl EXCEPT ![d] =
                      [StepOk(d, "status:processing", "getJob") EXCEPT
                          !.persisted = "processing"]]
          /\ UpdateResumeJobStatus(JobOf(d), "processing", ProcessingMeta)
       \/ /\ dl' = [dl EXCEPT ![d] =
                      StepThrows(d, "status:processing", DbError("processing"))]
          /\ UNCHANGED dbVars
    /\ UNCHANGED <<msgs, ready, dead, chan, chanState, timers>>

\* const jobData = await this.dbJobs.getResumeJobById(job.jobId)
\* if (!jobData) throw new Error(`Job not found: ...`)
GetJob(d) ==
    /\ dl[d].pc = "getJob"
    /\ \/ /\ JobOf(d) \in Jobs
          /\ dl' = [dl EXCEPT ![d] = StepOk(d, "getJob", "fetchPosts")]
       \/ /\ JobOf(d) = NoRow
          /\ dl' = [dl EXCEPT ![d] =
                      [StepOk(d, "getJob", "setFailed") EXCEPT
                          !.err = JobNotFound]]
       \/ dl' = [dl EXCEPT ![d] = StepThrows(d, "getJob", DbError("getJob"))]
    /\ UNCHANGED <<msgs, ready, dead, chan, chanState, timers, status, meta>>

\* await withRetry(() => Promise.all([...dbPosts reads]), 'fetch_posts_data')
FetchPosts(d) ==
    /\ dl[d].pc = "fetchPosts"
    /\ \/ dl' = [dl EXCEPT ![d] = StepOk(d, "fetchPosts", "fetchManagement")]
       \/ dl' = [dl EXCEPT ![d] = StepThrows(d, "fetchPosts", PostsFetchError)]
    /\ UNCHANGED <<msgs, ready, dead, chan, chanState, timers, status, meta>>

\* await withRetry(() => Promise.all([...dbManagement reads]),
\*                 'fetch_management_data')
FetchManagement(d) ==
    /\ dl[d].pc = "fetchManagement"
    /\ \/ dl' = [dl EXCEPT ![d] = StepOk(d, "fetchManagement", "enhance")]
       \/ dl' = [dl EXCEPT ![d] =
                   StepThrows(d, "fetchManagement", ManagementFetchError)]
    /\ UNCHANGED <<msgs, ready, dead, chan, chanState, timers, status, meta>>

\* if (job.jobDescription && job.jobDescription.trim().length > 0)
ShouldEnhance(desc) == desc = "text"

\* The catch around enhanceContentWithAI: whether the call resolved or
\* threw, the run goes on to the identity lookup; enrichedData is the
\* call's result when it resolved and stays the fetched (raw) data when it
\* threw.
AfterEnhanceRethrows(resolved) ==
    IF resolved THEN [pc |-> "identity", err |-> "", data |-> "enhanced"]
    ELSE [pc |-> "setFailed", err |-> AIError, data |-> "raw"]

AfterEnhance(resolved) ==
    [pc |-> "identity", err |-> "",
     data |-> IF resolved THEN "enhanced" ELSE "raw"]

\* enhanceContentWithAI inside its own try/catch, called only for a
\* non-blank job description. The log keeps whether the call resolved.
Enhance(d) ==
    /\ dl[d].pc = "enhance"
    /\ IF ShouldEnhance(msgs[dl[d].msg].desc)
       THEN \E resolved \in BOOLEAN :
              dl' = [dl EXCEPT ![d] =
                       [dl[d] EXCEPT
                          !.log = Append(@, Ev("enhance", resolved)),
                          !.pc = AfterEnhance(resolved).pc,
                          !.err = AfterEnhance(resolved).err,
                          !.data = AfterEnhance(resolved).data]]
       ELSE dl' = [dl EXCEPT ![d].pc = "identity"]
    /\ UNCHANGED <<msgs, ready, dead, chan, chanState, timers, status, meta>>

\* userProfile from the job, else dbAuth.getUserById inside its own
\* try/catch: a failed lookup leaves the profile undefined.
ResolveIdentity(d) ==
    /\ dl[d].pc = "identity"
    /\ dl' = [dl EXCEPT ![d] = StepOk(d, "identity", "validate")]
    /\ UNCHANGED <<msgs, ready, dead, chan, chanState, timers, status, meta>>

\* const composed = assemblePayload(...); validatePayload(composed)
Validate(d) ==
    /\ dl[d].pc = "validate"
    /\ \E valid \in BOOLEAN :
         dl' = [dl EXCEPT ![d] =
                  [dl[d] EXCEPT !.log = Append(@, Ev("validate", valid)),
                                !.pc = AfterValidate(valid).pc,
                                !.err = AfterValidate(valid).err]]
    /\ UNCHANGED <<msgs, ready, dead, chan, chanState, timers, status, meta>>

\* const renderResponse = await this.resumeService.renderResume(...)
Render(d) ==
    /\ dl[d].pc = "render"
    /\ \/ \E r \in RenderResponses :
            dl' = [dl EXCEPT ![d] =
                     [dl[d] EXCEPT !.log = Append(@, Ev("render", TRUE)),
                                   !.resp = r,
                                   !.pc = AfterRender(r).pc,
                                   !.err = AfterRender(r).err]]
       \/ dl' = [dl EXCEPT ![d] = StepThrows(d, "render", RenderCallError)]
    /\ UNCHANGED <<msgs, ready, dead, chan, chanState, timers, status, meta>>

\* const pdfBuffer = await this.resumeService.downloadFromUrl(pdfUrl)
Download(d) ==
    /\ dl[d].pc = "download"
    /\ \/ dl' = [dl EXCEPT ![d] = StepOk(d, "download", "store")]
       \/ dl' = [dl EXCEPT ![d] = StepThrows(d, "download", DownloadError)]
    /\ UNCHANGED <<msgs, ready, dead, chan, chanState, timers, status, meta>>

\* storeResume(job, data, format): the file is written and
\* createResumeRecord inserts the row; any failure is rethrown.
StoreFormat(resp) == IF resp.pdfUrl THEN "store:pdf" ELSE "store:html"

StoreResume(d) ==
    /\ dl[d].pc = "store"
    /\ \/ dl' = [dl EXCEPT ![d] =
                   StepOk(d, StoreFormat(dl[d].resp), "setCompleted")]
       \/ dl' = [dl EXCEPT ![d] =
                   StepThrows(d, StoreFormat(dl[d].resp), StorageError)]
    /\ UNCHANGED <<msgs, ready, dead, chan, chanState, timers, status, meta>>

\* await this.dbJobs.updateResumeJobStatus(job.jobId, 'completed', ...);
\* processJob then returns: the callback goes on to ack.
SetCompleted(d) ==
    /\ dl[d].pc = "setCompleted"
    /\ \/ /\ dl' = [dl EXCEPT ![d] =
                      [StepOk(d, "status:completed", AfterHandler("resolved"))
                          EXCEPT !.outcome = "resolved",
                                 !.persisted = "completed"]]
          /\ UpdateResumeJobStatus(JobOf(d), "completed",
                                   CompletedMeta(dl[d].resp))
       \/ /\ dl' = [dl EXCEPT ![d] =
                      StepThrows(d, "status:completed", DbError("completed"))]
          /\ UNCHANGED dbVars
    /\ UNCHANGED <<msgs, ready, dead, chan, chanState, timers>>

\* catch (err) { await this.dbJobs.updateResumeJobStatus(job.jobId,
\* 'failed', {error: err.message, failedAt}); throw err }
\* When the write itself throws, its error leaves processJob instead.
SetFailed(d) ==
    /\ dl[d].pc = "setFailed"
    /\ \/ /\ dl' = [dl EXCEPT ![d] =
                      [StepOk(d, "status:failed", AfterHandler("rejected"))
                          EXCEPT !.outcome = "rejected",
                                 !.persisted = "failed",
                                 !.thrown = dl[d].err]]
          /\ UpdateResumeJobStatus(JobOf(d), "failed", FailedMeta(dl[d].err))
       \/ /\ dl' = [dl EXCEPT ![d] =
                      [dl[d] EXCEPT
                          !.log = Append(@, Ev("status:failed", FALSE)),
                          !.outcome = "rejected",
                          !.thrown = DbError("failed"),
                          !.pc = AfterHandler("rejected")]]
          /\ UNCHANGED dbVars
    /\ UNCHANGED <<msgs, ready, dead, chan, chanState, timers>>


\* this.channel!.ack(msg), the last statement of the try block. The call
\* goes to the channel the consumer holds now, with the delivery tag of
\* msg; on a closed channel it throws, into the callback's catch block.
ConsumerAck(d) ==
    /\ dl[d].pc = "ack"
    /\ IF chanState[chan] = "open"
       THEN BrokerSettle(
              [dl EXCEPT ![d] =
                 Returned([dl[d] EXCEPT
                    !.issued = Append(@, Call("ack", FALSE, chan, TRUE))])],
              ready, chan, dl[d].tag, "ack", FALSE)
       ELSE /\ dl' = [dl EXCEPT
                        ![d].issued = Append(@, Call("ack", FALSE, chan, FALSE)),
                        ![d].thrown = "Channel closed",
                        ![d].pc = "catch"]
            /\ UNCHANGED brokerVars
    /\ UNCHANGED <<msgs, chan, timers, status, meta>>

\* The catch block after a rejected handler or a failed ack.
ConsumerCatch(d) ==
    /\ dl[d].pc = "catch"
    /\ CatchBlock(dl, ready, d)
    /\ UNCHANGED <<msgs, chan, timers, status, meta>>

\* ------------------------------------------------------------- connection
\* The connection of channel c is lost: the broker returns the channel's
\* unacked deliveries to the queue, and the connection's 'close' handler
\* (after its 'error' handler, when the loss is an error) calls
\* handleConnectionError, which schedules a reconnect each time.
ConnectionLost(c) ==
    /\ chanState[c] \in {"open", "chanClosed"}
    /\ \E events \in 1..2 : timers' = timers + events
    /\ LET open == {i \in Deliveries : dl[i].chan = c /\ dl[i].st = "unacked"}
       IN /\ dl' = [i \in Deliveries |->
                      IF i \in open THEN [dl[i] EXCEPT !.st = "returned"]
                      ELSE dl[i]]
          /\ ready' = ready \cup {dl[i].msg : i \in open}
    /\ chanState' = [chanState EXCEPT ![c] = "closed"]
    /\ UNCHANGED <<msgs, dead, chan, status, meta>>

\* reconnect(): connect() assigns this.channel a channel of a new
\* connection, setupQueue() and start() consume from the queue on it.
Reconnect ==
    /\ timers > 0
    /\ \E c \in Channels :
         /\ chanState[c] = "unused"
         /\ \A b \in Channels : chanState[b] = "unused" => c <= b
         /\ chanState' = [chanState EXCEPT ![c] = "open"]
         /\ chan' = c
    /\ timers' = timers - 1
    /\ UNCHANGED <<msgs, ready, dead, dl, status, meta>>

\* reconnect() when the broker stays unreachable: connect() throws after
\* its attempts, 'Reconnection failed' is logged and nothing else is done.
ReconnectFails ==
    /\ timers > 0
    /\ timers' = timers - 1
    /\ UNCHANGED <<msgs, ready, dead, dl, chan, chanState, status, meta>>

\* ------------------------------------------------------------------- Next
Next ==
    \/ (\E m \in Msgs, c \in Channels : Deliver(m, c)) /\ UNCHANGED unitVars
    \/ (\E d \in Deliveries : SetProcessing(d)) /\ UNCHANGED unitVars
    \/ (\E d \in Deliveries : GetJob(d)) /\ UNCHANGED unitVars
    \/ (\E d \in Deliveries : FetchPosts(d)) /\ UNCHANGED unitVars
    \/ (\E d \in Deliveries : FetchManagement(d)) /\ UNCHANGED unitVars
    \/ (\E d \in Deliveries : Enhance(d)) /\ UNCHANGED unitVars
    \/ (\E d \in Deliveries : ResolveIdentity(d)) /\ UNCHANGED unitVars
    \/ (\E d \in Deliveries : Validate(d)) /\ UNCHANGED unitVars
    \/ (\E d \in Deliveries : Render(d)) /\ UNCHANGED unitVars
    \/ (\E d \in Deliveries : Download(d)) /\ UNCHANGED unitVars
    \/ (\E d \in Deliveries : StoreResume(d)) /\ UNCHANGED unitVars
    \/ (\E d \in Deliveries : SetCompleted(d)) /\ UNCHANGED unitVars
    \/ (\E d \in Deliveries : SetFailed(d)) /\ UNCHANGED unitVars
    \/ (\E d \in Deliveries : ConsumerAck(d)) /\ UNCHANGED unitVars
    \/ (\E d \in Deliveries : ConsumerCatch(d)) /\ UNCHANGED unitVars
    \/ (\E c \in Channels : ConnectionLost(c)) /\ UNCHANGED unitVars
    \/ (Reconnect) /\ UNCHANGED unitVars
    \/ (ReconnectFails) /\ UNCHANGED unitVars

Spec == Init /\ [][Next]_vars


\* ================================================================= claims
HeaderValue(d) ==
    LET h == msgs[dl[d].msg].headers IN IF h = <<>> THEN 0 ELSE h[1]
Issued(d, kind) ==
    {k \in DOMAIN dl[d].issued : dl[d].issued[k].kind = kind}
IndexOf(d, op) == CHOOSE i \in DOMAIN dl[d].log : dl[d].log[i].op = op
Before(d, op1, op2) ==
    /\ Did(d, op1)
    /\ Did(d, op2)
    /\ IndexOf(d, op1) < IndexOf(d, op2)

\* C1: when the handler fails for a delivery, the callback issues no ack
\* and one nack for it, with requeue=true when the delivery's
\* x-retry-count header (0 when absent) is < 3 and with requeue=false when
\* it is >= 3; every nack the callback issues follows that rule.
C1_NackByRetryCount ==
    \A d \in Deliveries :
        /\ \A k \in Issued(d, "nack") :
              /\ HeaderValue(d) < 3 => dl[d].issued[k].requeue
              /\ HeaderValue(d) >= 3 => ~dl[d].issued[k].requeue
        /\ dl[d].outcome = "rejected" =>
              /\ Issued(d, "ack") = {}
              /\ dl[d].pc = "done" => Cardinality(Issued(d, "nack")) = 1

\* A handler failed on a delivery whose header is 3 and the delivery went
\* to the dead-letter route.
C1_Witness ==
    \E d \in Deliveries :
        /\ msgs[dl[d].msg].headers = <<3>>
        /\ dl[d].outcome = "rejected"
        /\ dl[d].pc = "done"
        /\ dl[d].issued = <<Call("nack", FALSE, dl[d].chan, TRUE)>>
        /\ dl[d].st = "dead"
        /\ dl[d].msg \in dead

\* C2: the retry count the callback observes on a redelivery that follows
\* a nack-with-requeue is strictly greater than the one it observed on the
\* requeued delivery (so that redelivery is bounded).
C2_RetryCountGrows ==
    \A i, j \in Deliveries :
        (i < j /\ dl[i].msg = dl[j].msg /\ dl[i].st = "requeued")
            => ObservedRetryCount(dl, j) > ObservedRetryCount(dl, i)

\* The acks and nacks that reached the broker for delivery d: the calls
\* sent on d's channel with d's delivery tag, by whichever callback.
SentOn(d) ==
    {p \in Deliveries \X (1..2) :
        /\ p[2] \in DOMAIN dl[p[1]].issued
        /\ dl[p[1]].issued[p[2]].sent
        /\ dl[p[1]].issued[p[2]].chan = dl[d].chan
        /\ dl[p[1]].tag = dl[d].tag}

\* C3: every delivery gets exactly one decision: at most one ack or nack is
\* ever sent for it, an ack only if its handler completed, a nack only if
\* its decoding or its handler failed, and once its callback has returned
\* (its channel still open) the decision has been sent.
C3_ExactlyOneDecision ==
    \A d \in Deliveries :
        /\ Cardinality(SentOn(d)) <= 1
        /\ \A p \in SentOn(d) :
              /\ dl[p[1]].issued[p[2]].kind = "ack"
                    => dl[d].outcome = "resolved"
              /\ dl[p[1]].issued[p[2]].kind = "nack"
                    => (msgs[dl[d].msg].body = "malformed"
                        \/ dl[d].outcome = "rejected")
        /\ (dl[d].pc = "done" /\ chanState[dl[d].chan] = "open")
              => SentOn(d) # {}

\* C4: for a delivery whose body is not valid JSON the handler is never
\* invoked and the callback never issues an ack; in the turn of the
\* delivery it issues one nack, with requeue when x-retry-count < 3 and
\* without when >= 3.
C4_MalformedNeverAcked ==
    \A d \in Deliveries :
        msgs[dl[d].msg].body = "malformed" =>
            /\ dl[d].outcome = ""
            /\ dl[d].persisted = ""
            /\ dl[d].log = <<>>
            /\ dl[d].pc = "done"
            /\ Issued(d, "ack") = {}
            /\ Len(dl[d].issued) = 1
            /\ dl[d].issued[1].requeue = (HeaderValue(d) < 3)

\* A malformed delivery without a retry header was nacked with requeue and
\* is back in the queue.
C4_Witness ==
    \E d \in Deliveries :
        /\ msgs[dl[d].msg].body = "malformed"
        /\ msgs[dl[d].msg].headers = <<>>
        /\ dl[d].issued = <<Call("nack", TRUE, dl[d].chan, TRUE)>>
        /\ dl[d].st = "requeued"
        /\ dl[d].msg \in ready

C6_TerminalStatusFinal ==
    [][\A j \in Jobs :
          status[j] \in {"completed", "cancelled"} => status'[j] = status[j]]_vars

\* C7: when processJob rejects, the failed-status write with the failing
\* step's error has been made before, and processJob rejects with that
\* same error.
C7_FailureRecordedThenRethrown ==
    \A d \in Deliveries :
        (dl[d].outcome = "rejected" /\ dl[d].pc # "done") =>
            /\ Did(d, "status:failed")
            /\ dl[d].thrown = dl[d].err

\* C8: when the render response carries an error field the run downloads
\* and stores nothing, never writes completed, writes failed with
\* 'Renderer error: <error>' and rejects with that error.
C8_RendererErrorFailsJob ==
    \A d \in Deliveries :
        (DidOk(d, "render") /\ dl[d].resp.error) =>
            /\ ~Did(d, "download")
            /\ ~Did(d, "store:pdf")
            /\ ~Did(d, "store:html")
            /\ ~Did(d, "status:completed")
            /\ dl[d].err = RendererError
            /\ dl[d].outcome # "" =>
                  /\ dl[d].outcome = "rejected"
                  /\ Did(d, "status:failed")
                  /\ dl[d].thrown = RendererError

C11_EnhancementNeverFailsJob ==
    \A d \in Deliveries :
        /\ Did(d, "enhance") => msgs[dl[d].msg].desc = "text"
        /\ \A i \in 1..Len(dl[d].log) :
              dl[d].log[i] = Ev("enhance", FALSE) =>
                /\ dl[d].err # AIError
                /\ dl[d].thrown # AIError
                /\ dl[d].data = "raw"
                /\ IF i = Len(dl[d].log)
                   THEN dl[d].pc = "identity"
                   ELSE dl[d].log[i + 1].op = "identity"

\* A run whose enhancement threw has validated the assembled payload,
\* called the renderer and written completed.
C11_Witness ==
    \E d \in Deliveries :
        /\ \E i \in 1..Len(dl[d].log) : dl[d].log[i] = Ev("enhance", FALSE)
        /\ dl[d].data = "raw"
        /\ DidOk(d, "validate")
        /\ DidOk(d, "render")
        /\ DidOk(d, "status:completed")

\* The words the claims name as marking an error non-retryable.
MarksNonRetryable(message) ==
    \E i \in 1..Len(message) : message[i] \in {"404", "401", "403", "Invalid"}

FailedRetryably(i) ==
    wr.outs[i] # <<"ok">> /\ ~MarksNonRetryable(wr.outs[i])

\* initialDelay * backoffMultiplier^(k-1), the nominal delay of retry k.
NominalDelay(k) ==
    wr.cfg.initialDelay * Pow(wr.cfg.backoffMultiplier, k - 1)

\* C12: an invocation that throws an error marked non-retryable is the last
\* one, whichever invocation it is and whatever maxAttempts is, and
\* withRetry rejects with that very error.
C12_NonRetryableStopsAtOnce ==
    \A i \in 1..Len(wr.outs) :
        MarksNonRetryable(wr.outs[i]) =>
            /\ i = Len(wr.outs)
            /\ wr.phase = "rejected"
            /\ wr.result = [kind |-> "error", call |-> i]

\* The second invocation of three or more allowed throws a non-retryable
\* error and withRetry has rejected.
C12_Witness ==
    /\ wr.cfg.maxAttempts = MaxAttemptsCfg
    /\ Len(wr.outs) = 2
    /\ FailedRetryably(1)
    /\ MarksNonRetryable(wr.outs[2])
    /\ wr.phase = "rejected"

\* C13: an operation that failed retryably every time was invoked exactly
\* maxAttempts times when withRetry rejects, and the rejection carries the
\* error of the last invocation.
C13_ExactlyMaxAttempts ==
    (/\ wr.phase = "rejected"
     /\ \A i \in 1..Len(wr.outs) : FailedRetryably(i))
    => /\ Len(wr.outs) = wr.cfg.maxAttempts
       /\ wr.result = [kind |-> "error", call |-> Len(wr.outs)]

\* C14: after maxAttempts - 1 retryable failures the operation is invoked
\* once more, and when that invocation succeeds withRetry resolves with its
\* value having issued exactly maxAttempts - 1 retry warnings.
C14_SucceedsOnLastAttempt ==
    LET n == wr.cfg.maxAttempts
    IN (/\ wr.phase # "idle"
        /\ Len(wr.outs) >= n - 1
        /\ \A i \in 1..(n - 1) : FailedRetryably(i))
       => /\ Len(wr.outs) = n - 1 => wr.phase \in {"waiting", "calling"}
          /\ (Len(wr.outs) >= n /\ wr.outs[n] = <<"ok">>) =>
                /\ wr.phase = "resolved"
                /\ wr.result = [kind |-> "value", call |-> n]
                /\ wr.warnings = n - 1

\* maxAttempts is 3: two retryable failures, then a success.
C14_Witness ==
    /\ wr.cfg.maxAttempts = MaxAttemptsCfg
    /\ Len(wr.outs) = MaxAttemptsCfg
    /\ \A i \in 1..(MaxAttemptsCfg - 1) : FailedRetryably(i)
    /\ wr.outs[MaxAttemptsCfg] = <<"ok">>
    /\ wr.phase = "resolved"

\* C15 as stated: the wait before retry k is exactly
\* min(maxDelay, initialDelay * backoffMultiplier^(k-1)).
C15_ExactBackoffDelay ==
    \A k \in 1..Len(wr.waits) :
        wr.waits[k] = Min(wr.cfg.maxDelay, NominalDelay(k))

\* C15, amended: the wait before retry k lies between the nominal delay and
\* twice the nominal delay, both capped by maxDelay; the waits are
\* non-decreasing and never exceed maxDelay.
C15_JitteredBackoffDelay ==
    \A k \in 1..Len(wr.waits) :
        /\ wr.waits[k] >= Min(wr.cfg.maxDelay, NominalDelay(k))
        /\ wr.waits[k] <= Min(wr.cfg.maxDelay, 2 * NominalDelay(k))
        /\ wr.waits[k] <= wr.cfg.maxDelay
        /\ k > 1 => wr.waits[k - 1] <= wr.waits[k]

\* Three retries were waited for, the last one cut down to maxDelay and
\* the first one longer than its nominal delay.
C15_Witness ==
    /\ Len(wr.waits) = MaxAttemptsCfg
    /\ wr.cfg.backoffMultiplier = 2
    /\ wr.waits[1] > NominalDelay(1)
    /\ NominalDelay(MaxAttemptsCfg) > wr.cfg.maxDelay
    /\ wr.waits[MaxAttemptsCfg] = wr.cfg.maxDelay

\* C16: connect(maxRetries) calls amqp.connect at most maxRetries times; it
\* returns at the first success, having waited 2^k seconds after its k-th
\* failure; it throws after maxRetries failures, having waited after each
\* but the last.
C16_ConnectBoundedAttempts ==
    \A p \in DOMAIN cn.procs :
        LET q == cn.procs[p]
        IN /\ q.tries <= q.maxRetries
           /\ \A k \in 1..Len(q.waits) : q.waits[k] = 2 ^ k
           /\ q.result = "returned" =>
                 q.tries = q.attempts + 1 /\ Len(q.waits) = q.attempts
           /\ q.result = "threw" =>
                 /\ q.tries = q.maxRetries
                 /\ q.attempts = q.maxRetries
                 /\ Len(q.waits) = Max(q.maxRetries - 1, 0)
           /\ q.pc = "backoff" => Len(q.waits) = q.attempts

\* One call of connect returned at its third attempt after waiting 2 and
\* 4 seconds, and one call threw after five failed attempts.
C16_Witness ==
    /\ \E p \in DOMAIN cn.procs :
         /\ cn.procs[p].result = "returned"
         /\ cn.procs[p].waits = <<2, 4>>
    /\ \E p \in DOMAIN cn.procs :
         /\ cn.procs[p].result = "threw"
         /\ cn.procs[p].maxRetries = DefaultMaxRetries

\* The consumer is running and its connection is gone.
ConnectionLostWhileRunning ==
    /\ cn.procs[1].pc = "done"
    /\ cn.isRunning
    /\ ~cn.stopped
    /\ cn.connection \notin cn.live

\* The consumer consumes from the queue on a live connection.
Consuming == cn.connection \in cn.live /\ cn.channel \in cn.consumers

\* C17: if the broker is reachable from some time on, every loss of the
\* connection while the consumer runs is followed by the consumer consuming
\* again (or by stop()).
C17_EventuallyReconnects ==
    (<>[](cn.brokerUp))
        => [](ConnectionLostWhileRunning => <>(Consuming \/ cn.stopped))

\* C18: isConnected() is false whenever the connection is lost and not
\* re-established, before connect() and start() have completed, and
\* after stop().
C18_IsConnectedFalseWhenDown ==
    (\/ cn.connection \notin cn.live
     \/ cn.procs[1].pc \in {"connect", "backoff", "setupQueue", "start"}
     \/ cn.stopped)
    => ~IsConnected

\* The deliveries whose callback is still running in the worker.
InFlight == {d \in Deliveries : dl[d].pc # "done"}

\* C19: the deliveries handed to the handler and not yet settled by their
\* callback are never more than the prefetch count.
C19_InFlightWithinPrefetch == Cardinality(InFlight) <= PrefetchCount

\* C20: an item without metadata, or whose metadata has status other than
\* success or validated false, gets its content from the raw field (cut to
\* the field's cap); the optimized variant is the content exactly when
\* status is success and validated is true.
C20_RawUnlessValidatedSuccess ==
    asm.phase = "assembled" =>
        LET item == asm.item
            field == asm.section.field
            cap == IF field = "description" THEN 800 ELSE 500
            fromRaw == IF item.raw.len = 0 THEN Empty
                       ELSE [item.raw EXCEPT !.len = Min(@, cap)]
            fromOptimized == [item.opt EXCEPT !.len = Min(@, cap)]
            trusted == item.ai.status = "success" /\ item.ai.validated
        IN /\ ~trusted => asm.out.content = fromRaw
           /\ trusted => /\ item.optKey = field
                         /\ asm.out.content = fromOptimized
                         /\ asm.out.content.src = "ai"

\* An item whose optimized field holds AI text under failed metadata (the
\* truncate fallback) is assembled from its raw text.
C20_Witness ==
    /\ asm.phase = "assembled"
    /\ asm.item.opt.src = "ai"
    /\ asm.item.ai.status = "failed"
    /\ asm.item.raw.src = "raw"
    /\ asm.out.content.src = "raw"

\* C21: the content selectOptimalContent returns is never longer than the
\* field's cap (800 for description, 500 otherwise) and is a prefix of the
\* chosen source (the optimized value when it is trusted and non-empty, the
\* raw value otherwise): the whole of it when it fits, its first cap
\* characters otherwise.
C21_BoundedPrefixOfChosenSource ==
    asm.phase = "assembled" =>
        LET item == asm.item
            field == asm.section.field
            cap == IF field = "description" THEN 800 ELSE 500
            optimized == IF item.optKey = field THEN item.opt ELSE Null
            chosen == IF /\ item.ai.status = "success"
                         /\ item.ai.validated
                         /\ optimized.len > 0
                      THEN optimized ELSE item.raw
            content == asm.out.content
        IN /\ content.len <= cap
           /\ content.len = IF chosen.len <= cap THEN chosen.len ELSE cap
           /\ content.len > 0 => /\ content.src = chosen.src
                                 /\ content.from = chosen.from
           /\ content.len = 0 => content = Empty

\* A raw description longer than 800 characters is assembled as its first
\* 800 characters.
C21_Witness ==
    /\ asm.phase = "assembled"
    /\ asm.section.field = "description"
    /\ asm.item.ai = NoMeta
    /\ asm.item.raw.len > 800
    /\ asm.out.content = [src |-> "raw", from |-> 0, len |-> 800]

\* C22: in the assembled payload jobDescription has at most 2000
\* characters, every string-valued field of an experience or project entry
\* (the description and any other) at most 800, and every string-valued
\* metadata entry at most 1000.
C22_PayloadFieldsWithinCaps ==
    (asm.phase = "assembled"
     /\ asm.section.name \in {"experience", "project"}) =>
        /\ asm.payload.jobDescription.len <= 2000
        /\ asm.out.content.len <= 800
        /\ asm.out.other.len <= 800
        /\ asm.payload.note.len <= 1000

\* C23: an assembled entry carries no _ai value, and its _aiEnhanced is a
\* boolean: true exactly when the item's metadata has status success and
\* validated true, false otherwise and when the item has no metadata.
C23_MetadataStrippedFlagBoolean ==
    asm.phase = "assembled" =>
        /\ asm.out.ai = "undefined"
        /\ asm.out.aiEnhanced \in {"true", "false"}
        /\ asm.out.aiEnhanced = "true" <=>
               (asm.item.ai.status = "success" /\ asm.item.ai.validated)

\* A syntactically well-formed address: no white space, exactly one "@"
\* with something before it, and after it a "." with something on both
\* sides.
WellFormedAddress(s) ==
    LET ats == {i \in 1..Len(s) : s[i] = "@"}
    IN /\ Cardinality(ats) = 1
       /\ \A i \in 1..Len(s) : s[i] # " "
       /\ \A at \in ats :
             /\ at > 1
             /\ \E dot \in (at + 2)..(Len(s) - 1) : s[dot] = "."

C29_EmptyOrNonStringIsInvalid ==
    (/\ vl.phase \in {"returned", "threw"}
     /\ (vl.content.kind # "string" \/ vl.content.len = 0)) =>
        /\ vl.phase = "returned"
        /\ ~vl.result.isValid

\* C30: a result validate returns has isValid true exactly when its errors
\* list is empty; every entry of errors has severity error, and the two
\* conditions reported as warnings (prose required but bullets detected,
\* required keywords missing) are in warnings, never in errors.
C30_ValidIffNoErrors ==
    vl.phase = "returned" =>
        LET result == vl.result
            content == vl.content
            reported(text) ==
                \E i \in 1..Len(result.warnings) :
                    result.warnings[i][1] = text
            proseGotBullets ==
                /\ vl.rules.requiredFormat = "prose"
                /\ 10 * content.bullets > 7 * content.lines
            keywordMissing ==
                \E i \in 1..Len(vl.rules.requiredKeywords) :
                    vl.rules.requiredKeywords[i] \notin content.has
        IN /\ result.isValid <=> Len(result.errors) = 0
           /\ \A i \in 1..Len(result.errors) :
                 /\ result.errors[i].severity = "error"
                 /\ result.errors[i].message[1] \notin
                        {"Expected prose format but received bullet points",
                         "Missing keywords"}
           /\ content.len > 0 =>
                 /\ proseGotBullets <=>
                       reported("Expected prose format but received bullet points")
                 /\ keywordMissing <=> reported("Missing keywords")

\* A bulleted text under rules that require prose and two keywords it
\* lacks is returned valid, with both warnings.
C30_Witness ==
    /\ vl.phase = "returned"
    /\ vl.rules.requiredFormat = "prose"
    /\ vl.content.bullets = 3
    /\ vl.content.lines = 3
    /\ vl.rules.requiredKeywords # <<>>
    /\ vl.content.has = {}
    /\ vl.result.isValid
    /\ Len(vl.result.warnings) = 2

\* The verdict of the validator on the response of the AI call, under the
\* rules of the section.
Verdict == AIValidatorValidate(ContentOf(asm'.outcome),
                               ValidationRules(asm.section))

\* enhanceItem has run for the item of an enabled section.
EnhancedEnabled ==
    /\ asm.phase = "fetched"
    /\ asm'.phase = "enhanced"
    /\ asm.section.enable

\* C25: enhanceItem on an enabled section attaches metadata with status
\* success and validated true, and the unmodified AI content under
\* <field>_optimized, exactly when the AI call succeeded and the validator
\* judged the response valid; whenever it attaches metadata, status is
\* success or failed, and success exactly when validated is true.
C25_SuccessIffJudgedValid ==
    [][EnhancedEnabled =>
         LET judgedValid == /\ asm'.outcome.kind = "response"
                            /\ ~Verdict.threw
                            /\ Verdict.isValid
             ai == asm'.item.ai
         IN /\ judgedValid <=> (ai.status = "success" /\ ai.validated)
            /\ judgedValid =>
                  /\ asm'.item.optKey = asm.section.field
                  /\ asm'.item.opt = asm'.outcome.content
                  /\ asm'.item.raw = asm.item.raw
                  /\ asm'.item.other = asm.item.other
            /\ ai # NoMeta =>
                  /\ ai.status \in {"success", "failed"}
                  /\ ai.status = "success" <=> ai.validated]_vars

\* A bulleted AI text of 801 characters for an experience is attached
\* whole, with success metadata.
C25_Witness ==
    /\ asm.phase = "enhanced"
    /\ asm.section.name = "experience"
    /\ asm.item.ai.status = "success"
    /\ asm.item.ai.validated
    /\ asm.item.optKey = "description"
    /\ asm.item.opt = [src |-> "ai", from |-> 0, len |-> 801]

\* C26: when the AI response is invalid (empty, not a string, or rejected
\* by the rules), enhanceItem returns the item unmodified under the skip
\* fallback; under truncate it attaches the AI text cut to the section's
\* maxLength and under raw the original content, in both cases with
\* metadata of status failed, validated false and the first validation
\* error's message as error.
C26_FallbackOnInvalidResponse ==
    [][(/\ EnhancedEnabled
        /\ asm'.outcome.kind = "response"
        /\ (Verdict.threw \/ ~Verdict.isValid)) =>
         LET content == asm'.outcome.content
             original == IF asm.item.raw.len > 0 THEN asm.item.raw ELSE Empty
             firstError ==
                 IF Verdict.threw
                 THEN <<"Response is empty or not a string">>
                 ELSE Verdict.errors[1].message
             attached(text) ==
                 [asm.item EXCEPT
                    !.opt = text,
                    !.optKey = asm.section.field,
                    !.ai = [status |-> "failed", validated |-> FALSE,
                            tokensUsed |-> asm'.outcome.tokens_used,
                            error |-> firstError]]
         IN CASE asm.fallback = "skip" -> asm'.item = asm.item
              [] asm.fallback = "truncate" ->
                   asm'.item =
                     attached(IF content.len <= asm.section.maxLength
                              THEN content
                              ELSE [content EXCEPT
                                      !.len = asm.section.maxLength])
              [] asm.fallback = "raw" -> asm'.item = attached(original)]_vars

\* The items of the batch whose enhanceItem has settled.
Settled == {i \in 1..Len(bt.promises) : bt.promises[i].state # "pending"}

\* C27: on an enabled section enhanceItem never rejects; when its AI call
\* fails it resolves with the item's original fields unchanged plus
\* metadata of status failed, validated false, tokensUsed 0 and the
\* stringified error. So enhanceItems never rejects, and the result of an
\* item is what its own AI call makes of it, whatever happens to the
\* others.
C27_FailureIsolatedPerItem ==
    /\ bt.phase # "rejected"
    /\ \A i \in Settled :
          /\ bt.promises[i].state = "fulfilled"
          /\ bt.outcomes[i].kind = "throws" =>
                bt.promises[i].value =
                  [bt.items[i] EXCEPT
                     !.ai = [status |-> "failed", validated |-> FALSE,
                             tokensUsed |-> 0,
                             error |-> bt.outcomes[i].error]]
    /\ (bt.phase = "returned" /\ bt.calls > 0) =>
          \A i \in 1..Len(bt.items) :
             /\ bt.results[i] = bt.promises[i].value
             /\ \A j \in 1..Len(bt.items) :
                   (bt.items[j] = bt.items[i]
                    /\ bt.outcomes[j] = bt.outcomes[i]) =>
                       bt.results[j] = bt.results[i]

\* In a batch of two whose first AI call failed, the first result is the
\* item with failed metadata and the second is enhanced.
C27_Witness ==
    /\ bt.phase = "returned"
    /\ bt.calls = 2
    /\ bt.outcomes[1].kind = "throws"
    /\ bt.results[1].ai.status = "failed"
    /\ bt.results[1].opt = Null
    /\ bt.results[2].ai.status = "success"

\* C28: enhanceItems returns one result per input item, in the input
\* order whatever the order in which the AI calls complete, the i-th
\* result keeping the original fields of the i-th input; for a disabled
\* section or an empty batch it returns the input list unchanged and makes
\* no AI call.
C28_OneResultPerItemInOrder ==
    bt.phase = "returned" =>
        /\ Len(bt.results) = Len(bt.items)
        /\ \A i \in 1..Len(bt.items) :
              /\ bt.results[i].raw = bt.items[i].raw
              /\ bt.results[i].other = bt.items[i].other
        /\ (~bt.section.enable \/ Len(bt.items) = 0) =>
              /\ bt.results = bt.items
              /\ bt.calls = 0

\* Two different items whose AI calls complete in the reverse order come
\* back in the input order.
C28_Witness ==
    /\ bt.phase = "returned"
    /\ bt.order = <<2, 1>>
    /\ bt.items[1] # bt.items[2]
    /\ bt.results[1].raw = bt.items[1].raw
    /\ bt.results[1].ai.status = "success"
    /\ bt.results[2].ai.status = "failed"

\* C31: for a non-empty content without bullet lines, validated with
\* requiredFormat bullet and no bulletPointCount, the returned result has
\* exactly one error of code WRONG_FORMAT and isValid false.
C31_NoBulletsIsWrongFormat ==
    (/\ vl.phase \in {"returned", "threw"}
     /\ vl.content.kind = "string"
     /\ vl.content.len > 0
     /\ vl.content.bullets = 0
     /\ vl.rules.requiredFormat = "bullet"
     /\ vl.rules.bulletPointCount = <<>>) =>
        /\ vl.phase = "returned"
        /\ ~vl.result.isValid
        /\ Cardinality({i \in 1..Len(vl.result.errors) :
                          vl.result.errors[i].code = "WRONG_FORMAT"}) = 1

\* Three lines of prose of acceptable length, with no other rule broken,
\* are rejected with the single error WRONG_FORMAT.
C31_Witness ==
    /\ vl.phase = "returned"
    /\ vl.content.lines = 3
    /\ vl.content.bullets = 0
    /\ vl.rules.requiredFormat = "bullet"
    /\ vl.rules.bulletPointCount = <<>>
    /\ Len(vl.result.errors) = 1
    /\ vl.result.errors[1].code = "WRONG_FORMAT"
    /\ ~vl.result.isValid

\* The names the table of getRulesForSection does not have.
UnknownSections == {"experiences", "systemDesigns", "skills"}

\* C32 as stated: an unknown section name gets the empty rule set, and every
\* non-empty string content is valid under it.
C32_UnknownSectionAlwaysValid ==
    (/\ vl.phase \in {"returned", "threw"}
     /\ vl.section \in UnknownSections
     /\ vl.content.kind = "string"
     /\ vl.content.len > 0) =>
        /\ vl.rules = NoRules
        /\ vl.phase = "returned"
        /\ vl.result.isValid

\* C32, amended: an unknown section name gets the empty rule set, under
\* which a non-empty string content is valid exactly when it includes none
\* of the default forbidden phrases, each included one being an error.
C32_UnknownSectionDefaultPhrases ==
    (/\ vl.phase \in {"returned", "threw"}
     /\ vl.section \in UnknownSections
     /\ vl.content.kind = "string"
     /\ vl.content.len > 0) =>
        LET hits == vl.content.has
                    \cap {"i don't know", "error", "unable to",
                          "[placeholder]", "todo", "wip", "tbd"}
        IN /\ vl.rules = NoRules
           /\ vl.phase = "returned"
           /\ vl.result.isValid <=> hits = {}
           /\ Len(vl.result.errors) = Cardinality(hits)
           /\ \A i \in 1..Len(vl.result.errors) :
                 vl.result.errors[i].code = "FORBIDDEN_PHRASE"

\* A long bulleted text without forbidden phrase is valid for the unknown
\* section name experiences.
C32_Witness ==
    /\ vl.phase = "returned"
    /\ vl.section = "experiences"
    /\ vl.content.len = 301
    /\ vl.content.bullets = 3
    /\ vl.content.has = {"kubernetes"}
    /\ vl.result.isValid

\* C33 (as stated): the wait of the polling processor is bounded: at most
\* maxWaitTime / pollInterval = 60 polls are made; a run whose polls never
\* returned completed or failed ends after the 60th with the failed-status
\* write for 'Resume generation timeout'; a polled status of failed is
\* followed by no pause and no poll; a polled status of completed is followed
\* by no further poll and, when the run has ended, by exactly one write of
\* status completed.
MaxPolls == MaxWaitTime \div PollInterval

C33_Bounded ==
    /\ pl.polls <= MaxPolls
    /\ pl.error = GenerationTimeout =>
         /\ pl.polls = MaxPolls
         /\ pl.polled = "pending"
         /\ pl.completedWrites = 0
         /\ pl.pc = "rejected" =>
              /\ pl.failedWrites = 1
              /\ pl.status = "failed" => pl.rejected = GenerationTimeout
    /\ pl.polled = "failed" =>
         /\ pl.pc \in {"catch", "rejected"}
         /\ pl.error = GenerationFailed
         /\ pl.completedWrites = 0
         /\ pl.pc = "rejected" => pl.failedWrites = 1
    /\ pl.polled = "completed" => pl.pc \notin {"poll", "sleep"}

C35_EachFetchRetriedOnItsOwn ==
    /\ \A f \in DOMAIN fg.calls : fg.calls[f] <= fg.failures[f] + 1
    /\ (fg.pc = "rejected" /\ ~fg.bailed) =>
          \E f \in DOMAIN fg.calls : fg.failures[f] = fg.retries + 1

\* C34: within one run of processJob the steps occur in strict sequence:
\* a source fetch is made only after the processing write succeeded; the
\* management group is fetched only after the posts group resolved;
\* enrichment is called only after both groups resolved; render is called
\* only after the payload was assembled and found valid; storage happens
\* only after the render call returned (and, for a PDF, the download); and
\* status completed is written only after storage succeeded. No step
\* happens twice in a run. A run's log only grows, so the property is stated
\* for the step logged last, which every step of the run once was.
Required(op) ==
    CASE op = "fetchPosts" -> {"status:processing"}
      [] op = "fetchManagement" -> {"status:processing", "fetchPosts"}
      [] op = "enhance" -> {"fetchPosts", "fetchManagement"}
      [] op = "validate" -> {"fetchPosts", "fetchManagement"}
      [] op = "render" -> {"validate"}
      [] op = "download" -> {"render"}
      [] op = "store:pdf" -> {"render", "download"}
      [] op = "store:html" -> {"render"}
      [] OTHER -> {}

C34_StepsInStrictSequence ==
    \A d \in DOMAIN dl :
        LET log == dl[d].log
            n == Len(log)
            prior == {log[i] : i \in 1..(n - 1)}
        IN  n > 0 =>
              /\ \A pre \in Required(log[n].op) : Ev(pre, TRUE) \in prior
              /\ log[n].op = "status:completed" =>
                    \/ Ev("store:pdf", TRUE) \in prior
                    \/ Ev("store:html", TRUE) \in prior
              /\ \A e \in prior : e.op # log[n].op

\* A run that went through every step: enrichment called, a PDF rendered,
\* downloaded and stored, status completed written.
C34_Witness ==
    \E d \in DOMAIN dl :
        /\ Did(d, "enhance")
        /\ DidOk(d, "download")
        /\ DidOk(d, "store:pdf")
        /\ DidOk(d, "status:completed")

\* C36: one loss of the broker connection leads to at most one reconnection
\* and at most one consumer on the queue: the reconnections scheduled or
\* started never outnumber the connections lost, no two reconnections are
\* in progress for one lost connection, and never are two consume callbacks
\* active.
ConnectionsLost ==
    {p \in DOMAIN cn.procs : cn.procs[p].result = "returned"} \ cn.live

ReconnectsInProgress ==
    {p \in DOMAIN cn.procs :
        cn.procs[p].kind = "reconnect" /\ cn.procs[p].pc \notin {"done", "failed"}}

C36_OneReconnectPerLoss ==
    ~cn.stopped =>
        /\ cn.timers + Len(cn.procs) - 1 <= Cardinality(ConnectionsLost)
        /\ Cardinality(ConnectionsLost) = 1 =>
              Cardinality(ReconnectsInProgress) <= 1
        /\ Cardinality(cn.consumers) <= 1

\* The consequences of the two events of one loss: two reconnections in
\* progress at once, and two consumers registered.
C36_TwoReconnectsTwoConsumers ==
    /\ ~cn.stopped
    /\ Cardinality(ConnectionsLost) = 1
    /\ Cardinality(cn.consumers) = 2

\* C37: once stop() has been called, no step of the consumer opens a
\* connection, registers a consumer, sets isRunning back to true or
\* schedules a reconnection.
C37_StoppedStaysStopped ==
    [][cn.stopped =>
          /\ cn'.live \subseteq cn.live
          /\ cn'.consumers \subseteq cn.consumers
          /\ ~cn'.isRunning
          /\ cn'.timers <= cn.timers]_vars

\* After stop(), a reconnection that was pending has connected and is
\* consuming again, with isRunning true.
C37_ConsumingAfterStop ==
    /\ cn.stopped
    /\ cn.isRunning
    /\ cn.consumers # {}

\* C38: when a job has reached completed, at most one artifact record
\* exists for it, whatever deliveries and redeliveries it went through.
\* createResumeRecord is called once by every storeResume that succeeded,
\* and each call inserts a row.
ArtifactRecords(j) ==
    {d \in DOMAIN dl :
        /\ JobOf(d) = j
        /\ (DidOk(d, "store:pdf") \/ DidOk(d, "store:html"))}

C38_OneArtifactPerCompletedJob ==
    \A j \in Jobs :
        status[j] = "completed" => Cardinality(ArtifactRecords(j)) <= 1

\* The run that stored the artifact failed at the completed write and its
\* message was requeued; the next run stored a second artifact and
\* completed the job.
C38_SecondArtifactAfterRequeue ==
    \E j \in Jobs :
        /\ status[j] = "completed"
        /\ Cardinality(ArtifactRecords(j)) = 2
        /\ \E d \in ArtifactRecords(j) :
              \E i \in DOMAIN dl[d].log :
                 dl[d].log[i] = Ev("status:completed", FALSE)

\* C39: shutdown is graceful: no pool is closed before the consumer is
\* stopped; a run in flight when shutdown begins makes no query on a pool
\* that has been closed, and the process does not exit while such a run has
\* not yet written a terminal status.
C39_GracefulShutdown ==
    /\ sd.closed # {} => sd.consumer = "stopped"
    /\ ~sd.usedClosed
    /\ sd.exited => sd.run \notin {"try", "catch"}

\* The two failures: a run whose status writes all met the closed pool, and
\* a run cut off by the exit in the middle of its steps.
C39_RunFailsOnClosedPool ==
    /\ sd.run = "rejected"
    /\ sd.usedClosed
    /\ sd.terminal = "none"

C39_RunCutOffByExit ==
    /\ sd.exited
    /\ sd.run = "try"
    /\ sd.at > 0

====
